---------------------------- MODULE Spec2Model ----------------------------
(***************************************************************************)
(* Funnel orchestrator of shop-sim-ai: runAnalysis(storeUrl, runId).       *)
(*                                                                         *)
(* One run is a sequential async function.  Every await of a page-agent    *)
(* call (init, goto, act, extract, close) is a suspension point, so the    *)
(* run is modelled with one action per page-agent call; the action holds   *)
(* the call, its settle delay and the synchronous code that follows it up  *)
(* to the next call.  The page agent is the environment: each call either  *)
(* returns (an extract returns one observation out of a small set) or      *)
(* throws one of the values of Thrown.                                     *)
(*                                                                         *)
(* Two variants of runAnalysis exist in the repository: the full one       *)
(* (src/unnamed/part_000) and the reduced one (src/src/lib/agent.ts).      *)
(* The variable `variant` says which one a behaviour runs.                 *)
(*                                                                         *)
(* The start route (POST, src/src/lib/agent.ts) and the poll route (GET,   *)
(* src/src/app/api/run/[id]/route.ts) share the map resultsStore.  Under   *)
(* ServiceSpec a submit starts the run and polls interleave with it.       *)
(*                                                                         *)
(* Under ConcurrentSpec a second submit starts a second invocation while   *)
(* the first is in flight.  The variables of the run hold the locals of    *)
(* the invocation `current`; the locals of the other one are kept in       *)
(* `parked`, and the event loop resuming the other invocation at one of    *)
(* its awaits exchanges the two.                                           *)
(***************************************************************************)
EXTENDS Integers, Sequences, FiniteSets, TLC

VARIABLES
    variant,          \* "full" (part_000) or "reduced" (agent.ts)
    pc,               \* position of the run: the next page-agent call
    timeline,         \* const timeline: TimelineEvent[]
    findings,         \* const findings: Finding[]
    addToCartSuccess, \* let addToCartSuccess
    checkoutReached,  \* let checkoutReached
    dropOffStep,      \* let dropOffStep: string | null
    timeToAddToCart,  \* let timeToAddToCart: number | null
    sessionUrl,       \* let sessionUrl: string | null
    currentUrl,       \* let currentUrl (page.url() as last read)
    startTime,        \* const startTime = Date.now()
    cartCheckStr,     \* const cartCheckStr (kept for the add-to-cart-failed evidence)
    caught,           \* the value caught by the outermost catch, or None
    clock,            \* wall clock in ms (Date.now(), new Date())
    calls,            \* history: the page-agent calls issued so far
    returned,         \* the AnalysisResult the promise resolved with, or None
    rejected,         \* the value the promise rejected with, or None
    resultsStore,     \* const resultsStore = new Map() of the start route
    requestBody,      \* the body of the latest submit (POST), or None
    submitResponse,   \* the response to the latest submit, or None
    polls,            \* history: the responses to the polls (GET) so far
    current,          \* the run id of the invocation whose locals the variables hold
    parked            \* the locals of a second invocation in flight, or None

vars == <<variant, pc, timeline, findings, addToCartSuccess, checkoutReached,
          dropOffStep, timeToAddToCart, sessionUrl, currentUrl, startTime,
          cartCheckStr, caught, clock, calls, returned, rejected,
          resultsStore, requestBody, submitResponse, polls, current, parked>>

NULL == "null"

\* a nullable value that is not a string (number | null, a result or a
\* thrown value that may not exist yet): None is null, Some(v) the value v
None == <<>>
Some(v) == <<v>>
NumberOf(x) == x[1]
ValueOf(x) == x[1]

----------------------------------------------------------------------------
(* Bounds of the model *)

\* ms a call takes before it returns or throws: the shortest path to the
\* cart then stays under 30 s, the paths with a detour or a retry do not
CallLatency == 2000

----------------------------------------------------------------------------
(* Text: String.prototype.includes, toLowerCase, substring, JSON.stringify *)

\* s.includes(sub)
Includes(s, sub) ==
    \E i \in 1..(Len(s) - Len(sub) + 1) : SubSeq(s, i, i + Len(sub) - 1) = sub

UpperCase == <<"A","B","C","D","E","F","G","H","I","J","K","L","M",
               "N","O","P","Q","R","S","T","U","V","W","X","Y","Z">>
LowerCase == <<"a","b","c","d","e","f","g","h","i","j","k","l","m",
               "n","o","p","q","r","s","t","u","v","w","x","y","z">>

LowerChar(c) ==
    IF \E k \in 1..26 : UpperCase[k] = c
    THEN LowerCase[CHOOSE k \in 1..26 : UpperCase[k] = c]
    ELSE c

RECURSIVE ToLowerCase(_)
\* s.toLowerCase()
ToLowerCase(s) ==
    IF Len(s) = 0 THEN ""
    ELSE LowerChar(SubSeq(s, 1, 1)) \o ToLowerCase(SubSeq(s, 2, Len(s)))

\* s.substring(0, n)
Substring0(s, n) == SubSeq(s, 1, IF Len(s) < n THEN Len(s) ELSE n)

\* JSON.stringify of the object an extract returns: { extraction: text }
Stringify(obs) == "{\"extraction\":\"" \o obs \o "\"}"

\* JSON.stringify(x).toLowerCase()
LowerStr(obs) == ToLowerCase(Stringify(obs))

Digits == <<"0","1","2","3","4","5","6","7","8","9">>
IsDigit(c) == \E k \in 1..10 : Digits[k] = c
DigitVal(c) == (CHOOSE k \in 1..10 : Digits[k] = c) - 1
IsSpace(c) == c = " "

\* s[i] as a one-character string, "" past the end
CharAt(s, i) == IF i >= 1 /\ i <= Len(s) THEN SubSeq(s, i, i) ELSE ""

RECURSIVE DigitsEnd(_, _)
\* index just after the run of digits that starts at i
DigitsEnd(s, i) == IF IsDigit(CharAt(s, i)) THEN DigitsEnd(s, i + 1) ELSE i

RECURSIVE SpacesEnd(_, _)
\* index just after the run of white space that starts at i
SpacesEnd(s, i) == IF IsSpace(CharAt(s, i)) THEN SpacesEnd(s, i + 1) ELSE i

RECURSIVE ParseInt(_)
\* parseInt of a string of digits
ParseInt(s) ==
    IF Len(s) = 0 THEN 0
    ELSE 10 * ParseInt(SubSeq(s, 1, Len(s) - 1)) + DigitVal(SubSeq(s, Len(s), Len(s)))

StartsAt(s, i, word) == SubSeq(s, i, i + Len(word) - 1) = word

\* /(\d+)\s*(form\s*)?fields?/i matches s with the digits starting at i
FieldMatchAt(s, i) ==
    /\ IsDigit(CharAt(s, i))
    /\ LET low == ToLowerCase(s)
           j   == SpacesEnd(s, DigitsEnd(s, i))
       IN  \/ StartsAt(low, j, "field")
           \/ /\ StartsAt(low, j, "form")
              /\ StartsAt(low, SpacesEnd(s, j + 4), "field")

\* analysisStr.match(/(\d+)\s*(form\s*)?fields?/i): the number captured by
\* the leftmost match, or None when there is no match
FieldMatch(s) ==
    IF \E i \in 1..Len(s) : FieldMatchAt(s, i)
    THEN LET i == CHOOSE k \in 1..Len(s) :
                      /\ FieldMatchAt(s, k)
                      /\ \A m \in 1..(k - 1) : ~FieldMatchAt(s, m)
         IN  Some(ParseInt(SubSeq(s, i, DigitsEnd(s, i) - 1)))
    ELSE None

----------------------------------------------------------------------------
(* Findings and the keyword rules that derive them from an observation.     *)
(* String literals are Latin-1: the letters U+0131 (dotless i) and U+015F   *)
(* (s with cedilla) of the Turkish keywords are written ~ and $.            *)

Finding(id, category, evidence) ==
    [id |-> id, category |-> category, evidence |-> evidence]

\* a rule that stops firing once the run has accumulated three findings:
\* a classification that depends on the earlier observations
WhenUnderCap(cond, finding) ==
    IF cond /\ Len(findings) < 3 THEN <<finding>> ELSE <<>>

\* a rule's contribution: the finding when the rule fires, nothing otherwise
When(cond, finding) == IF cond THEN <<finding>> ELSE <<>>

\* `Error: ${e instanceof Error ? e.message : 'Unknown error'}`
ErrorMessage(e) == IF e.isError THEN e.message ELSE "Unknown error"
ErrorEvidence(e) == "Error: " \o ErrorMessage(e)

\* homepage rules, on homepageStr
HomepageFindings(str) ==
    When(/\ \/ ~Includes(str, "search")
            \/ Includes(str, "no search")
            \/ Includes(str, "not visible")
         /\ ~Includes(str, "search bar")
         /\ ~Includes(str, "search icon"),
         Finding("homepage-no-search", "warning",
                 "Search bar/icon not easily found during homepage analysis"))
    \o
    When(\/ Includes(str, "confusing")
         \/ Includes(str, "cluttered")
         \/ Includes(str, "unclear")
         \/ Includes(str, "difficult"),
         Finding("homepage-navigation-unclear", "warning",
                 "Navigation described as unclear or cluttered during analysis"))
    \o
    When(\/ Includes(str, "hard to find")
         \/ Includes(str, "not easy")
         \/ Includes(str, "difficult to locate"),
         Finding("homepage-products-hidden", "suggestion",
                 "Products or shop section not prominently displayed"))
    \o
    When(/\ \/ Includes(str, "popup")
            \/ Includes(str, "overlay")
            \/ Includes(str, "modal")
         /\ \/ Includes(str, "annoying")
            \/ Includes(str, "intrusive")
            \/ Includes(str, "blocking"),
         Finding("homepage-intrusive-popups", "warning",
                 "Intrusive popup/overlay detected on homepage"))

\* product-page rules, on productStr
ProductFindings(str) ==
    When(/\ Includes(str, "price")
         /\ \/ Includes(str, "not clear")
            \/ Includes(str, "hard to find")
            \/ Includes(str, "not visible"),
         Finding("product-price-unclear", "critical",
                 "Price visibility issue detected on product page"))
    \o
    When(/\ Includes(str, "image")
         /\ \/ Includes(str, "blurry")
            \/ Includes(str, "low quality")
            \/ Includes(str, "small")
            \/ Includes(str, "not zoomable"),
         Finding("product-images-poor", "warning",
                 "Image quality or zoom functionality issues detected"))
    \o
    When(/\ Includes(str, "add to cart")
         /\ \/ Includes(str, "not prominent")
            \/ Includes(str, "hard to find")
            \/ Includes(str, "small"),
         Finding("product-atc-not-prominent", "warning",
                 "Add to cart button prominence issue detected"))
    \o
    When(IF /\ ~Includes(str, "review")
            /\ ~Includes(str, "rating")
            /\ ~Includes(str, "star")
         THEN TRUE
         ELSE Includes(str, "no review") \/ Includes(str, "no rating"),
         Finding("product-no-reviews", "suggestion",
                 "No customer reviews or ratings found on product page"))
    \o
    When(/\ ~Includes(str, "stock")
         /\ ~Includes(str, "availability")
         /\ ~Includes(str, "stok"),
         Finding("product-no-stock-info", "suggestion",
                 "No stock availability indicator found on product page"))
    \o
    When(/\ ~Includes(str, "shipping")
         /\ ~Includes(str, "delivery")
         /\ ~Includes(str, "kargo")
         /\ ~Includes(str, "teslimat"),
         Finding("product-no-shipping-info", "suggestion",
                 "No shipping information found before add to cart"))

\* cart-experience rules, on cartExpStr
CartExperienceFindings(str) ==
    When(/\ ~Includes(str, "feedback")
         /\ ~Includes(str, "notification")
         /\ ~Includes(str, "popup")
         /\ ~Includes(str, "animation")
         /\ ~Includes(str, "confirmation"),
         Finding("cart-no-feedback", "warning",
                 "No clear visual feedback detected after adding to cart"))
    \o
    When(/\ ~Includes(str, "free shipping")
         /\ ~Includes(str, "ücretsiz kargo")
         /\ ~Includes(str, "shipping threshold"),
         Finding("cart-no-shipping-threshold", "suggestion",
                 "No \"Add X more for free shipping\" message detected"))
    \o
    When(/\ ~Includes(str, "upsell")
         /\ ~Includes(str, "cross-sell")
         /\ ~Includes(str, "also like")
         /\ ~Includes(str, "recommend")
         /\ ~Includes(str, "related"),
         Finding("cart-no-upsell", "suggestion",
                 "No product recommendations shown after adding to cart"))
    \o
    When(/\ Includes(str, "checkout")
         /\ \/ Includes(str, "not clear")
            \/ Includes(str, "hard to find")
            \/ Includes(str, "hidden"),
         Finding("cart-checkout-unclear", "warning",
                 "Checkout button or path not prominently displayed"))

\* `${fieldCount} form fields detected during checkout analysis`
FieldEvidence(fieldCount) ==
    ToString(fieldCount) \o " form fields detected during checkout analysis"

\* checkout-page rules, on analysisStr (not lowercased) and its lowercase
CheckoutFindings(analysisStr) ==
    LET low == ToLowerCase(analysisStr)
        fieldMatch == FieldMatch(analysisStr)
    IN
    When(~Includes(low, "discount") /\ ~Includes(low, "coupon"),
         Finding("no-discount-field", "suggestion",
                 "Discount/coupon field not found during checkout analysis"))
    \o
    When(/\ ~Includes(low, "upsell")
         /\ ~Includes(low, "cross-sell")
         /\ ~Includes(low, "related")
         /\ ~Includes(low, "recommend"),
         Finding("no-upsell", "suggestion",
                 "No upsell or cross-sell suggestions found at checkout"))
    \o
    When(/\ ~Includes(low, "trust")
         /\ ~Includes(low, "security")
         /\ ~Includes(low, "ssl")
         /\ ~Includes(low, "secure"),
         Finding("no-trust-badges", "warning",
                 "No trust badges or security indicators found on checkout page"))
    \o
    When(~Includes(low, "free shipping") /\ ~Includes(low, "ücretsiz kargo"),
         Finding("no-free-shipping-threshold", "suggestion",
                 "Free shipping threshold messaging not detected"))
    \o
    When(\/ Includes(low, "login required")
         \/ (Includes(low, "login") /\ ~Includes(low, "guest"))
         \/ Includes(low, "account required")
         \/ Includes(low, "sign in required"),
         Finding("checkout-no-guest", "warning",
                 "Login/account required before checkout completion"))
    \o
    When(fieldMatch # None /\ NumberOf(fieldMatch) > 8,
         Finding("checkout-too-many-fields", "suggestion",
                 FieldEvidence(NumberOf(fieldMatch))))
    \o
    When(/\ ~Includes(low, "progress")
         /\ ~Includes(low, "step")
         /\ ~Includes(low, "indicator")
         /\ ~Includes(low, "ad~m"),
         Finding("checkout-no-progress", "suggestion",
                 "No progress indicator or step tracker found"))
    \o
    When(/\ ~Includes(low, "shipping cost")
         /\ ~Includes(low, "delivery cost")
         /\ ~Includes(low, "kargo ücreti")
         /\ (Includes(low, "shipping") \/ Includes(low, "kargo"))
         /\ \/ Includes(low, "not displayed")
            \/ Includes(low, "not visible")
            \/ Includes(low, "hidden")
            \/ Includes(low, "unclear"),
         Finding("checkout-unclear-shipping", "warning",
                 "Shipping cost visibility issue detected"))
    \o
    When(/\ Includes(low, "error")
         /\ ~Includes(low, "no error")
         /\ (Includes(low, "error message") \/ Includes(low, "validation error")),
         Finding("checkout-has-errors", "critical",
                 "Validation errors detected during checkout process"))

\* the finding of the diagnostic extract after a cart check without items
\* the diagnostic finding with the stock test ahead of the size test
FinalErrorFindingStockFirst(finalErrorStr, cartStr) ==
    IF \/ Includes(finalErrorStr, "stock")
       \/ Includes(finalErrorStr, "stok")
    THEN Finding("add-to-cart-out-of-stock", "warning",
                 "Error: " \o Substring0(finalErrorStr, 200))
    ELSE IF \/ Includes(finalErrorStr, "beden")
            \/ Includes(finalErrorStr, "size")
            \/ Includes(finalErrorStr, "variant")
    THEN Finding("add-to-cart-size-required", "warning",
                 "Error: " \o Substring0(finalErrorStr, 200))
    ELSE IF Includes(finalErrorStr, "login")
    THEN Finding("add-to-cart-login-required", "critical",
                 "Error: " \o Substring0(finalErrorStr, 200))
    ELSE Finding("add-to-cart-failed", "critical",
                 "Cart check: " \o cartStr \o ", Error check: "
                     \o Substring0(finalErrorStr, 200))

FinalErrorFinding(finalErrorStr, cartStr) ==
    IF \/ Includes(finalErrorStr, "beden")
       \/ Includes(finalErrorStr, "size")
       \/ Includes(finalErrorStr, "variant")
    THEN Finding("add-to-cart-size-required", "warning",
                 "Error: " \o Substring0(finalErrorStr, 200))
    ELSE IF \/ Includes(finalErrorStr, "stock")
            \/ Includes(finalErrorStr, "stok")
            \/ Includes(finalErrorStr, "tükendi")
    THEN Finding("add-to-cart-out-of-stock", "warning",
                 "Error: " \o Substring0(finalErrorStr, 200))
    ELSE IF \/ Includes(finalErrorStr, "login")
            \/ Includes(finalErrorStr, "giri$")
            \/ Includes(finalErrorStr, "üye")
    THEN Finding("add-to-cart-login-required", "critical",
                 "Error: " \o Substring0(finalErrorStr, 200))
    ELSE Finding("add-to-cart-failed", "critical",
                 "Cart check: " \o cartStr \o ", Error check: "
                     \o Substring0(finalErrorStr, 200))

\* const needsVariantSelection
NeedsVariantSelection(errorCheckStr) ==
    \/ Includes(errorCheckStr, "beden")
    \/ Includes(errorCheckStr, "size")
    \/ Includes(errorCheckStr, "seç")
    \/ Includes(errorCheckStr, "select")
    \/ Includes(errorCheckStr, "variant")
    \/ Includes(errorCheckStr, "renk")
    \/ Includes(errorCheckStr, "color")
    \/ Includes(errorCheckStr, "required")
    \/ Includes(errorCheckStr, "zorunlu")
    \/ Includes(errorCheckStr, "lütfen")

\* the test on secondErrorStr
StillVariantError(secondErrorStr) ==
    \/ Includes(secondErrorStr, "beden")
    \/ Includes(secondErrorStr, "size")
    \/ Includes(secondErrorStr, "error")

\* a cart check that only looks for the negative terms
HasItemsNegativeOnly(str) ==
    /\ ~Includes(str, "\"0\"")
    /\ ~Includes(str, "0 item")
    /\ ~Includes(str, "empty")
    /\ ~Includes(str, "no item")

\* const hasItems
HasItems(str) ==
    /\ ~Includes(str, "\"0\"")
    /\ ~Includes(str, "0 item")
    /\ ~Includes(str, "empty")
    /\ ~Includes(str, "no item")
    /\ \/ Includes(str, "1")
       \/ Includes(str, "item")
       \/ Includes(str, "added")
       \/ Includes(str, "eklendi")
       \/ Includes(str, "success")

----------------------------------------------------------------------------
(* The environment: inputs, thrown values, observations, page URLs *)

RunId == current
StoreUrl == "https://shop.example"

\* page.url() of the store's pages; the browser reports a bare origin with
\* a trailing slash
HomeUrl == StoreUrl \o "/"
CategoryUrl == StoreUrl \o "/products"
ProductUrl == StoreUrl \o "/products/1"
CartUrl == StoreUrl \o "/cart"
CheckoutUrl == StoreUrl \o "/checkout"

\* what a call can throw: an Error with a message, or a value that is not
\* an Error
AnError == [isError |-> TRUE, message |-> "page agent failed"]
NotAnError == [isError |-> FALSE, message |-> ""]

\* the set-up calls throw either kind; act, extract and close throw Errors
SetupThrown == { AnError, NotAnError }
Thrown == { AnError }

\* stagehand.browserbaseSessionID after init
SessionIds == { "sess-1" }

\* observations an extract can return, per prompt
HomepageObs == { "Search icon visible, clean navigation",
                 "no search, cluttered, intrusive popup",
                 "no search bar visible, navigation is clear" }
InitialCheckObs == { "products with price listed", "this is a homepage" }
PageCheckObs == { "YES", "NO" }
ProductObs == { "price clear, reviews shown, in stock, free shipping",
                "price not visible, small image" }
ErrorCheckObs == { "no warning shown", "lütfen beden" }
SecondErrorObs == { "item was added", "beden error",
                    "no error, the item was added to the cart" }
CartCheckObs == { "cart icon shows 1 item, sepete eklendi",
                  "cart icon shows 0 items, no success message",
                  "cart badge not shown",
                  "0" }
CartExperienceObs == { "confirmation popup, free shipping bar, related products",
                       "checkout button hidden" }
FinalErrorObs == { "please choose a size", "out of stock",
                   "login required", "nothing shown",
                   "out of stock in this size, login to be notified",
                   "out of stock, login to be notified" }
CartInfoObs == { "cart page with checkout button", "payment page" }
LoginCheckObs == { "guest checkout option", "address form only" }
ModalCheckObs == { "address modal open", "nothing open" }
CheckoutObs == { "coupon field, trust badges, free shipping, related items, step 2 of 3, 6 fields",
                 "login required, 12 form fields, validation error message" }

\* the page-info extract of the reduced variant
PageInfoObs == { "this is the Checkout page", "still the product page" }

Observations ==
    PageInfoObs \cup HomepageObs \cup InitialCheckObs \cup PageCheckObs \cup ProductObs
    \cup ErrorCheckObs \cup SecondErrorObs \cup CartCheckObs
    \cup CartExperienceObs \cup FinalErrorObs \cup CartInfoObs
    \cup LoginCheckObs \cup ModalCheckObs \cup CheckoutObs

\* JSON.stringify(observation).toLowerCase(), tabulated over the observations
Str == [obs \in Observations |-> LowerStr(obs)]

\* the findings each UX extract derives, tabulated over its observations
HomepageRules == [obs \in HomepageObs |-> HomepageFindings(LowerStr(obs))]
ProductRules == [obs \in ProductObs |-> ProductFindings(LowerStr(obs))]
CartExperienceRules ==
    [obs \in CartExperienceObs |-> CartExperienceFindings(LowerStr(obs))]
CheckoutRules == [obs \in CheckoutObs |-> CheckoutFindings(Stringify(obs))]

----------------------------------------------------------------------------
(* Timeline, call history, stage gates *)

\* timeline.push({timestamp: new Date().toISOString(), action, url, success: true});
\* an ISO timestamp orders as its instant does, the instant is kept in ms
Event(t, action, url) ==
    [timestamp |-> t, action |-> action, url |-> url, success |-> TRUE]

\* a timeline that puts the new event in front (unshift in place of push):
\* the recorder an append-only timeline rules out
PushFront(tl, event) == <<event>> \o tl

\* timeline.push(event)
Push(tl, event) == Append(tl, event)

\* one page-agent call of the history: the operation, the source line of
\* the call in the variant's file, whether it threw, and what it resolved
\* to when it is an extract that returned
Call(op, line, threw) == [op |-> op, line |-> line, threw |-> threw, got |-> NULL]

\* if (currentUrl === storeUrl || currentUrl === storeUrl + '/')
UrlUnchanged(url, storeUrl) == url = storeUrl \/ url = storeUrl \o "/"

\* if (!dropOffStep)
EnterAddToCart(d) == d = NULL

\* if (addToCartSuccess && !dropOffStep)
EnterCheckout(a, d) == a /\ d = NULL

\* Math.round(ms / 1000)
RoundSeconds(ms) == (ms + 500) \div 1000

\* the elapsed time with its operands swapped: the subtraction a
\* non-negative time to add to cart rules out
ElapsedSecondsSwapped(start, now) == RoundSeconds(start - now)

\* timeToAddToCart = Math.round((addToCartTime - startTime) / 1000)
ElapsedSeconds(start, now) == RoundSeconds(now - start)

\* where the run goes after the add-to-cart stage (or after it was skipped):
\* into the checkout stage, or on to the score
AfterAddToCart(tl, a, d, url, t) ==
    IF EnterCheckout(a, d)
    THEN [pc |-> "goToCart",
          timeline |-> Push(tl, Event(t, "Navigating to cart/checkout", url))]
    ELSE [pc |-> "close", timeline |-> tl]

\* where the run goes after product discovery: into the add-to-cart stage,
\* or past it
AfterDiscovery(tl, a, d, url, t) ==
    IF EnterAddToCart(d)
    THEN [pc |-> "addToCart",
          timeline |-> Push(tl, Event(t, "Looking for Add to Cart button", url))]
    ELSE AfterAddToCart(tl, a, d, url, t)

----------------------------------------------------------------------------
(* Score and positive findings *)

CountCategory(fs, category) ==
    Cardinality({ i \in DOMAIN fs : fs[i].category = category })

Max(a, b) == IF a > b THEN a ELSE b
Min(a, b) == IF a < b THEN a ELSE b

\* a looser label match, on 'checkout' alone: it takes the event that
\* opens checkout navigation for a filled form
CheckoutFormFilledLoose(tl) ==
    \E i \in DOMAIN tl : Includes(tl[i].action, "checkout")

\* const checkoutFormFilled = timeline.some(t => t.action.includes('Filled checkout form'))
CheckoutFormFilled(tl) ==
    \E i \in DOMAIN tl : Includes(tl[i].action, "Filled checkout form")

\* the score without the floor of its UX component and without its clamp
ScoreUnclamped(a, c, f, fs) ==
    (IF a THEN 20 ELSE 0) + (IF c THEN 20 ELSE 0) + (IF f THEN 20 ELSE 0)
    + 40 - CountCategory(fs, "critical") * 15
         - CountCategory(fs, "warning") * 8
         - CountCategory(fs, "suggestion") * 5

\* the full score with the weights of the reduced variant: 5 a warning,
\* nothing for a suggestion
ScoreReducedWeights(a, c, f, fs) ==
    LET funnel == (IF a THEN 20 ELSE 0) + (IF c THEN 20 ELSE 0)
                  + (IF f THEN 20 ELSE 0)
        uxScore == 40 - CountCategory(fs, "critical") * 15
                      - CountCategory(fs, "warning") * 5
    IN  Max(0, Min(100, funnel + Max(0, uxScore)))

\* the full score without its UX component: the funnel points alone
ScoreFunnelOnly(a, c, f, fs) ==
    Max(0, Min(100, (IF a THEN 20 ELSE 0) + (IF c THEN 20 ELSE 0)
                    + (IF f THEN 20 ELSE 0)))

\* the score of the full variant
Score(a, c, f, fs) ==
    LET funnel == (IF a THEN 20 ELSE 0) + (IF c THEN 20 ELSE 0)
                  + (IF f THEN 20 ELSE 0)
        uxScore == 40 - CountCategory(fs, "critical") * 15
                      - CountCategory(fs, "warning") * 8
                      - CountCategory(fs, "suggestion") * 5
    IN  Max(0, Min(100, funnel + Max(0, uxScore)))

\* the positive findings the full variant appends after the score
PositiveFindings(a, c, f, t) ==
    When(a, Finding("successful-add-to-cart", "positive",
                    "Successfully added a product to cart during analysis"))
    \o
    When(a /\ t # None /\ NumberOf(t) # 0 /\ NumberOf(t) < 30,
         Finding("fast-add-to-cart", "positive",
                 "Time from page load to cart: " \o ToString(NumberOf(t)) \o "s"))
    \o
    When(c, Finding("successful-checkout-reach", "positive",
                    "Checkout page reached during analysis"))
    \o
    When(f, Finding("successful-form-fill", "positive",
                    "Form fields were successfully filled during analysis"))

\* the result object of the normal return
CompletedResult(score, a, t, c, f, d, fs, tl, su) ==
    [run_id |-> RunId, store_url |-> StoreUrl, status |-> "completed",
     score |-> score,
     metrics |-> [add_to_cart_success |-> a,
                  time_to_add_to_cart_seconds |-> t,
                  checkout_reached |-> c,
                  checkout_form_filled |-> f,
                  drop_off_step |-> d],
     findings |-> fs, timeline |-> tl, session_url |-> su,
     error |-> NULL]

\* an outermost catch that keeps what the run had accumulated: the
\* findings so far followed by analysis-failed, and the flags as they stand
FailedResultKeeping(e, tl, su) ==
    [run_id |-> RunId, store_url |-> StoreUrl, status |-> "failed",
     score |-> 0,
     metrics |-> [add_to_cart_success |-> addToCartSuccess,
                  time_to_add_to_cart_seconds |-> timeToAddToCart,
                  checkout_reached |-> checkoutReached,
                  checkout_form_filled |-> FALSE,
                  drop_off_step |-> "initialization"],
     findings |-> Append(findings,
                         Finding("analysis-failed", "critical", ErrorMessage(e))),
     timeline |-> tl, session_url |-> su,
     error |-> ErrorMessage(e)]

\* the result object the outermost catch returns
FailedResult(e, tl, su) ==
    [run_id |-> RunId, store_url |-> StoreUrl, status |-> "failed",
     score |-> 0,
     metrics |-> [add_to_cart_success |-> FALSE,
                  time_to_add_to_cart_seconds |-> None,
                  checkout_reached |-> FALSE,
                  checkout_form_filled |-> FALSE,
                  drop_off_step |-> "initialization"],
     findings |-> <<Finding("analysis-failed", "critical", ErrorMessage(e))>>,
     timeline |-> tl, session_url |-> su,
     error |-> ErrorMessage(e)]

----------------------------------------------------------------------------
(* Initial state: runAnalysis has been called, nothing has run yet *)

\* the locals of runAnalysis at its entry, and the routes before any request
InitRun ==
    /\ timeline = <<>>
    /\ findings = <<>>
    /\ addToCartSuccess = FALSE
    /\ checkoutReached = FALSE
    /\ dropOffStep = NULL
    /\ timeToAddToCart = None
    /\ sessionUrl = NULL
    /\ currentUrl = NULL
    /\ clock = 0
    /\ startTime = clock
    /\ cartCheckStr = NULL
    /\ caught = None
    /\ calls = <<>>
    /\ returned = None
    /\ rejected = None
    /\ resultsStore = <<>>
    /\ requestBody = None
    /\ submitResponse = None
    /\ polls = <<>>
    /\ current = "run-1"
    /\ parked = None

\* runAnalysis called on its own, in either variant
Init ==
    /\ variant \in {"full", "reduced"}
    /\ pc = "load"
    /\ InitRun

\* the state of the routes, which a step of runAnalysis never touches
service == <<resultsStore, requestBody, submitResponse, polls, current, parked>>

flags == <<addToCartSuccess, checkoutReached, dropOffStep, timeToAddToCart>>
fixed == <<variant, startTime, returned, rejected, service>>

\* a call at `line` returned after the call's latency and the settle delay
Returns(op, line, settle) ==
    /\ calls' = Append(calls, Call(op, line, FALSE))
    /\ clock' = clock + CallLatency + settle

\* the extract at `line` resolved to the observation obs
Extracted(line, obs) ==
    /\ calls' = Append(calls, [Call("extract", line, FALSE) EXCEPT !.got = obs])
    /\ clock' = clock + CallLatency

\* a call at `line` threw after the call's latency
Throws(op, line) ==
    /\ calls' = Append(calls, Call(op, line, TRUE))
    /\ clock' = clock + CallLatency

----------------------------------------------------------------------------
(* Set-up, shared by the two variants *)

\* await import('@browserbasehq/stagehand'); new Stagehand({...}): outside
\* the try, a failure rejects the promise of runAnalysis
LoadStagehand ==
    /\ pc = "load"
    /\ \/ /\ Returns("load", 49, 0)
          /\ pc' = "init"
          /\ UNCHANGED rejected
       \/ \E e \in SetupThrown :
          /\ Throws("load", 49)
          /\ pc' = "rejected"
          /\ rejected' = Some(e)
    /\ UNCHANGED <<service, variant, startTime, returned, timeline, findings,
                   flags, sessionUrl, currentUrl, cartCheckStr, caught>>

\* the outermost catch is entered with e
ToOuterCatch(e) ==
    /\ pc' = "catch"
    /\ caught' = Some(e)

\* an init whose failure is ignored: the run goes on to navigate without a
\* session
StagehandInitIgnoringFailure ==
    /\ pc = "init"
    /\ \/ \E id \in SessionIds :
          /\ Returns("init", 59, 0)
          /\ sessionUrl' = IF id # NULL
                           THEN "https://browserbase.com/sessions/" \o id
                           ELSE sessionUrl
       \/ \E e \in SetupThrown :
          /\ Throws("init", 59)
          /\ UNCHANGED sessionUrl
    /\ IF variant = "full"
       THEN /\ pc' = "goto"
            /\ UNCHANGED timeline
       ELSE /\ pc' = "r_navigate"
            /\ timeline' = Push(timeline, Event(clock', "Navigate to store", StoreUrl))
    /\ UNCHANGED <<fixed, findings, flags, currentUrl, cartCheckStr, caught>>

\* await stagehand.init(); sessionUrl; the reduced variant then records
\* 'Navigate to store' before it navigates
StagehandInit ==
    /\ pc = "init"
    /\ \/ \E id \in SessionIds :
          /\ Returns("init", 59, 0)
          /\ sessionUrl' = IF id # NULL
                           THEN "https://browserbase.com/sessions/" \o id
                           ELSE sessionUrl
          /\ IF variant = "full"
             THEN /\ pc' = "goto"
                  /\ UNCHANGED timeline
             ELSE /\ pc' = "r_navigate"
                  /\ timeline' = Push(timeline, Event(clock', "Navigate to store", StoreUrl))
          /\ UNCHANGED caught
       \/ \E e \in SetupThrown :
          /\ Throws("init", 59)
          /\ ToOuterCatch(e)
          /\ UNCHANGED <<sessionUrl, timeline>>
    /\ UNCHANGED <<fixed, findings, flags, currentUrl, cartCheckStr>>

----------------------------------------------------------------------------
(* The full variant: navigation and homepage *)

\* pages()[0], page.goto(storeUrl), settle, 'Navigate to store'
Goto ==
    /\ pc = "goto"
    /\ \/ /\ Returns("goto", 79, 2000)
          /\ currentUrl' = HomeUrl
          /\ timeline' = Push(timeline, Event(clock', "Navigate to store", currentUrl'))
          /\ pc' = "homepage"
          /\ UNCHANGED caught
       \/ \* no page in the context, or goto throws
          \E e \in SetupThrown :
          /\ Throws("goto", 79)
          /\ ToOuterCatch(e)
          /\ UNCHANGED <<currentUrl, timeline>>
    /\ UNCHANGED <<fixed, findings, flags, sessionUrl, cartCheckStr>>

\* a homepage analysis without its own try/catch: its throw reaches the
\* outermost catch
HomepageAnalysisAborts ==
    /\ pc = "homepage"
    /\ \/ \E obs \in HomepageObs :
          /\ Extracted(97, obs)
          /\ findings' = findings \o HomepageRules[obs]
          /\ timeline' = Push(Push(timeline,
                                   Event(clock', "Analyzed homepage UX", currentUrl)),
                              Event(clock', "Looking for products", currentUrl))
          /\ pc' = "initialCheck"
          /\ UNCHANGED caught
       \/ \E e \in Thrown :
          /\ Throws("extract", 97)
          /\ ToOuterCatch(e)
          /\ UNCHANGED <<findings, timeline>>
    /\ UNCHANGED <<fixed, flags, sessionUrl, currentUrl, cartCheckStr>>

\* homepage UX extract with its own try/catch, then 'Looking for products'
HomepageAnalysis ==
    /\ pc = "homepage"
    /\ \/ \E obs \in HomepageObs :
          /\ Extracted(97, obs)
          /\ findings' = findings \o HomepageRules[obs]
          /\ timeline' = Push(Push(timeline,
                                   Event(clock', "Analyzed homepage UX", currentUrl)),
                              Event(clock', "Looking for products", currentUrl))
       \/ /\ \E e \in Thrown : Throws("extract", 97)
          /\ timeline' = Push(timeline, Event(clock', "Looking for products", currentUrl))
          /\ UNCHANGED findings
    /\ pc' = "initialCheck"
    /\ UNCHANGED <<fixed, flags, sessionUrl, currentUrl, cartCheckStr, caught>>

----------------------------------------------------------------------------
(* The full variant: product discovery *)

\* catch (e) of product discovery: no-products, dropOffStep, and on to the
\* stages that follow
DiscoveryCatch(e) ==
    LET d == "product_discovery"
        next == AfterDiscovery(timeline, addToCartSuccess, d, currentUrl, clock')
    IN  /\ findings' = Append(findings,
                              Finding("no-products", "critical", ErrorEvidence(e)))
        /\ dropOffStep' = d
        /\ pc' = next.pc
        /\ timeline' = next.timeline

\* a step of product discovery threw
DiscoveryThrows(op, line) ==
    \E e \in Thrown :
        /\ Throws(op, line)
        /\ DiscoveryCatch(e)
        /\ UNCHANGED <<addToCartSuccess, checkoutReached, timeToAddToCart, currentUrl>>

\* extract: are products with prices visible, or is this a homepage
InitialPageCheck ==
    /\ pc = "initialCheck"
    /\ \/ \E obs \in InitialCheckObs :
          LET str == Str[obs]
          IN  /\ Extracted(184, obs)
              /\ pc' = IF \/ Includes(str, "homepage")
                          \/ Includes(str, "navigate")
                          \/ ~Includes(str, "price")
                       THEN "navigateToProducts"
                       ELSE "clickProduct"
              /\ UNCHANGED <<findings, flags, timeline, currentUrl>>
       \/ DiscoveryThrows("extract", 184)
    /\ UNCHANGED <<fixed, sessionUrl, cartCheckStr, caught>>

\* act: open the products menu and click a category; settle; re-read the URL
NavigateToProducts ==
    /\ pc = "navigateToProducts"
    /\ \/ \E url \in {currentUrl, CategoryUrl} :
          /\ Returns("act", 193, 2000)
          /\ currentUrl' = url
          /\ pc' = IF UrlUnchanged(url, StoreUrl) THEN "clickCategory"
                                                  ELSE "clickProduct"
          /\ UNCHANGED <<findings, flags, timeline>>
       \/ DiscoveryThrows("act", 193)
    /\ UNCHANGED <<fixed, sessionUrl, cartCheckStr, caught>>

\* act: the corrective click in the open dropdown
ClickCategory ==
    /\ pc = "clickCategory"
    /\ \/ /\ Returns("act", 207, 2000)
          /\ currentUrl' = CategoryUrl
          /\ pc' = "clickProduct"
          /\ UNCHANGED <<findings, flags, timeline>>
       \/ DiscoveryThrows("act", 207)
    /\ UNCHANGED <<fixed, sessionUrl, cartCheckStr, caught>>

\* act: click one product
ClickProduct ==
    /\ pc = "clickProduct"
    /\ \/ /\ Returns("act", 218, 2000)
          /\ currentUrl' = ProductUrl
          /\ pc' = "pageCheck"
          /\ UNCHANGED <<findings, flags, timeline>>
       \/ DiscoveryThrows("act", 218)
    /\ UNCHANGED <<fixed, sessionUrl, cartCheckStr, caught>>

\* extract: is this a product page; when it is, 'Navigated to product page'
ProductPageCheck ==
    /\ pc = "pageCheck"
    /\ \/ \E obs \in PageCheckObs :
          /\ Extracted(230, obs)
          /\ IF ~Includes(Str[obs], "yes")
             THEN /\ pc' = "clickProductRetry"
                  /\ UNCHANGED timeline
             ELSE /\ pc' = "productAnalysis"
                  /\ timeline' = Push(timeline,
                                      Event(clock', "Navigated to product page", currentUrl))
          /\ UNCHANGED <<findings, flags, currentUrl>>
       \/ DiscoveryThrows("extract", 230)
    /\ UNCHANGED <<fixed, sessionUrl, cartCheckStr, caught>>

\* a product click that is retried until the page check says yes
ClickProductRetryLooping ==
    /\ pc = "clickProductRetry"
    /\ \/ /\ Returns("act", 237, 2000)
          /\ currentUrl' = ProductUrl
          /\ pc' = "pageCheck"
          /\ UNCHANGED <<findings, flags, timeline>>
       \/ DiscoveryThrows("act", 237)
    /\ UNCHANGED <<fixed, sessionUrl, cartCheckStr, caught>>

\* act: the one retry of the product click, then 'Navigated to product page'
ClickProductRetry ==
    /\ pc = "clickProductRetry"
    /\ \/ /\ Returns("act", 237, 2000)
          /\ currentUrl' = ProductUrl
          /\ timeline' = Push(timeline,
                              Event(clock', "Navigated to product page", currentUrl'))
          /\ pc' = "productAnalysis"
          /\ UNCHANGED <<findings, flags>>
       \/ DiscoveryThrows("act", 237)
    /\ UNCHANGED <<fixed, sessionUrl, cartCheckStr, caught>>

\* product-page UX extract with its own try/catch; then the add-to-cart gate
ProductPageAnalysis ==
    /\ pc = "productAnalysis"
    /\ \/ \E obs \in ProductObs :
          LET tl == Push(timeline, Event(clock', "Analyzed product page UX", currentUrl))
              next == AfterDiscovery(tl, addToCartSuccess, dropOffStep, currentUrl, clock')
          IN  /\ Extracted(252, obs)
              /\ findings' = findings \o ProductRules[obs]
              /\ pc' = next.pc
              /\ timeline' = next.timeline
       \/ LET next == AfterDiscovery(timeline, addToCartSuccess, dropOffStep,
                                     currentUrl, clock')
          IN  /\ \E e \in Thrown : Throws("extract", 252)
              /\ pc' = next.pc
              /\ timeline' = next.timeline
              /\ UNCHANGED findings
    /\ UNCHANGED <<fixed, flags, sessionUrl, currentUrl, cartCheckStr, caught>>

----------------------------------------------------------------------------
(* The full variant: add to cart *)

\* an add-to-cart catch that reports the failure twice, once for the step
\* and once for the stage
AddToCartCatchTwice(e) ==
    LET d == "add_to_cart"
        next == AfterAddToCart(timeline, addToCartSuccess, d, currentUrl, clock')
        failed == Finding("add-to-cart-failed", "critical", ErrorEvidence(e))
    IN  /\ findings' = findings \o <<failed, failed>>
        /\ dropOffStep' = d
        /\ pc' = next.pc
        /\ timeline' = next.timeline

\* catch (e) of the add-to-cart stage: add-to-cart-failed, dropOffStep, and
\* on to the stages that follow
AddToCartCatch(e) ==
    LET d == "add_to_cart"
        next == AfterAddToCart(timeline, addToCartSuccess, d, currentUrl, clock')
    IN  /\ findings' = Append(findings,
                              Finding("add-to-cart-failed", "critical", ErrorEvidence(e)))
        /\ dropOffStep' = d
        /\ pc' = next.pc
        /\ timeline' = next.timeline

\* a step of the add-to-cart stage threw
AddToCartThrows(op, line) ==
    \E e \in Thrown :
        /\ Throws(op, line)
        /\ AddToCartCatch(e)
        /\ UNCHANGED <<addToCartSuccess, checkoutReached, timeToAddToCart,
                       currentUrl, cartCheckStr>>

\* act: select the first variant and click add to cart
AddToCart ==
    /\ pc = "addToCart"
    /\ \/ /\ Returns("act", 384, 2000)
          /\ pc' = "errorCheck"
          /\ UNCHANGED <<findings, flags, timeline, currentUrl, cartCheckStr>>
       \/ AddToCartThrows("act", 384)
    /\ UNCHANGED <<fixed, sessionUrl, caught>>

\* extract: is a variant-required error shown
ErrorCheck ==
    /\ pc = "errorCheck"
    /\ \/ \E obs \in ErrorCheckObs :
          /\ Extracted(395, obs)
          /\ IF NeedsVariantSelection(Str[obs])
             THEN /\ pc' = "selectVariant"
                  /\ timeline' = Push(timeline,
                         Event(clock', "Detected size/variant selection required",
                               currentUrl))
             ELSE /\ pc' = "cartCheck"
                  /\ UNCHANGED timeline
          /\ UNCHANGED <<findings, flags, currentUrl, cartCheckStr>>
       \/ AddToCartThrows("extract", 395)
    /\ UNCHANGED <<fixed, sessionUrl, caught>>

\* act: click the first enabled size/color
SelectVariant ==
    /\ pc = "selectVariant"
    /\ \/ /\ Returns("act", 433, 1500)
          /\ pc' = "retryAddToCart"
          /\ UNCHANGED <<findings, flags, timeline, currentUrl, cartCheckStr>>
       \/ AddToCartThrows("act", 433)
    /\ UNCHANGED <<fixed, sessionUrl, caught>>

\* act: click add to cart again
RetryAddToCart ==
    /\ pc = "retryAddToCart"
    /\ \/ /\ Returns("act", 443, 2000)
          /\ pc' = "secondErrorCheck"
          /\ UNCHANGED <<findings, flags, timeline, currentUrl, cartCheckStr>>
       \/ AddToCartThrows("act", 443)
    /\ UNCHANGED <<fixed, sessionUrl, caught>>

\* extract: is the variant error still shown
SecondErrorCheck ==
    /\ pc = "secondErrorCheck"
    /\ \/ \E obs \in SecondErrorObs :
          /\ Extracted(449, obs)
          /\ pc' = IF StillVariantError(Str[obs]) THEN "dropdownAttempt"
                                                       ELSE "cartCheck"
          /\ UNCHANGED <<findings, flags, timeline, currentUrl, cartCheckStr>>
       \/ AddToCartThrows("extract", 449)
    /\ UNCHANGED <<fixed, sessionUrl, caught>>

\* act: the dropdown-style attempt
DropdownAttempt ==
    /\ pc = "dropdownAttempt"
    /\ \/ /\ Returns("act", 456, 2000)
          /\ pc' = "cartCheck"
          /\ UNCHANGED <<findings, flags, timeline, currentUrl, cartCheckStr>>
       \/ AddToCartThrows("act", 456)
    /\ UNCHANGED <<fixed, sessionUrl, caught>>

\* settle; extract: the cart state; hasItems decides success
CartCheck ==
    /\ pc = "cartCheck"
    /\ \/ \E obs \in CartCheckObs :
          LET str == Str[obs]
              now == clock + 1500 + CallLatency
          IN  /\ calls' = Append(calls, [Call("extract", 471, FALSE) EXCEPT !.got = obs])
              /\ clock' = now
              /\ cartCheckStr' = str
              /\ IF HasItems(str)
                 THEN /\ timeToAddToCart' = Some(ElapsedSeconds(startTime, now))
                      /\ addToCartSuccess' = TRUE
                      /\ timeline' = Push(timeline,
                                          Event(now, "Added product to cart", currentUrl))
                      /\ pc' = "cartExperience"
                 ELSE /\ pc' = "finalErrorCheck"
                      /\ UNCHANGED <<addToCartSuccess, timeToAddToCart, timeline>>
              /\ UNCHANGED <<findings, checkoutReached, dropOffStep, currentUrl>>
       \/ \E e \in Thrown :
          /\ calls' = Append(calls, Call("extract", 471, TRUE))
          /\ clock' = clock + 1500 + CallLatency
          /\ AddToCartCatch(e)
          /\ UNCHANGED <<addToCartSuccess, checkoutReached, timeToAddToCart,
                         currentUrl, cartCheckStr>>
    /\ UNCHANGED <<fixed, sessionUrl, caught>>

\* cart-experience UX extract with its own try/catch; then the checkout gate
CartExperienceAnalysis ==
    /\ pc = "cartExperience"
    /\ \/ \E obs \in CartExperienceObs :
          LET tl == Push(timeline, Event(clock', "Analyzed cart experience", currentUrl))
              next == AfterAddToCart(tl, addToCartSuccess, dropOffStep, currentUrl, clock')
          IN  /\ Extracted(498, obs)
              /\ findings' = findings \o CartExperienceRules[obs]
              /\ pc' = next.pc
              /\ timeline' = next.timeline
       \/ LET next == AfterAddToCart(timeline, addToCartSuccess, dropOffStep,
                                     currentUrl, clock')
          IN  /\ \E e \in Thrown : Throws("extract", 498)
              /\ pc' = next.pc
              /\ timeline' = next.timeline
              /\ UNCHANGED findings
    /\ UNCHANGED <<fixed, flags, sessionUrl, currentUrl, cartCheckStr, caught>>

\* extract: why the item could not be added; one finding; dropOffStep
FinalErrorCheck ==
    /\ pc = "finalErrorCheck"
    /\ \/ \E obs \in FinalErrorObs :
          LET d == "add_to_cart"
              next == AfterAddToCart(timeline, addToCartSuccess, d, currentUrl, clock')
          IN  /\ Extracted(575, obs)
              /\ findings' = Append(findings,
                                    FinalErrorFinding(Str[obs], cartCheckStr))
              /\ dropOffStep' = d
              /\ pc' = next.pc
              /\ timeline' = next.timeline
              /\ UNCHANGED <<addToCartSuccess, checkoutReached, timeToAddToCart,
                             currentUrl, cartCheckStr>>
       \/ AddToCartThrows("extract", 575)
    /\ UNCHANGED <<fixed, sessionUrl, caught>>

----------------------------------------------------------------------------
(* The full variant: checkout navigation *)

\* a checkout catch after which the form fill is still attempted
CheckoutCatchContinues(e) ==
    /\ dropOffStep' = "checkout_navigation"
    /\ findings' = Append(findings,
                          Finding("checkout-failed", "critical", ErrorEvidence(e)))
    /\ pc' = "loginCheck"

\* a checkout catch that reports the drop-off of the discovery stage
CheckoutCatchAsDiscovery(e) ==
    /\ dropOffStep' = "product_discovery"
    /\ findings' = Append(findings,
                          Finding("checkout-failed", "critical", ErrorEvidence(e)))
    /\ pc' = "close"

\* catch (e) of the checkout stage: checkout-failed, dropOffStep
CheckoutCatch(e) ==
    /\ dropOffStep' = "checkout_navigation"
    /\ findings' = Append(findings,
                          Finding("checkout-failed", "critical", ErrorEvidence(e)))
    /\ pc' = "close"

\* a step of checkout navigation threw
CheckoutThrows(op, line) ==
    \E e \in Thrown :
        /\ Throws(op, line)
        /\ CheckoutCatch(e)
        /\ UNCHANGED <<addToCartSuccess, checkoutReached, timeToAddToCart,
                       currentUrl, timeline>>

\* act: open the cart or the checkout; 'Clicked cart/checkout button'
GoToCart ==
    /\ pc = "goToCart"
    /\ \/ /\ Returns("act", 649, 2000)
          /\ currentUrl' = CartUrl
          /\ timeline' = Push(timeline,
                              Event(clock', "Clicked cart/checkout button", currentUrl'))
          /\ pc' = "cartPageInfo"
          /\ UNCHANGED <<findings, flags>>
       \/ CheckoutThrows("act", 649)
    /\ UNCHANGED <<fixed, sessionUrl, cartCheckStr, caught>>

\* a checkout stage that starts the form fill without recording that the
\* checkout was reached
ReachCheckoutUnrecorded(tl, url, t) ==
    /\ checkoutReached' = checkoutReached
    /\ timeline' = Push(tl, Event(t, "Filling checkout form", url))
    /\ pc' = "loginCheck"

\* checkoutReached = true; 'Filling checkout form'
ReachCheckout(tl, url, t) ==
    /\ checkoutReached' = TRUE
    /\ timeline' = Push(tl, Event(t, "Filling checkout form", url))
    /\ pc' = "loginCheck"

\* extract: which page is this; off a cart page the checkout is reached
CartPageInfo ==
    /\ pc = "cartPageInfo"
    /\ \/ \E obs \in CartInfoObs :
          LET str == Str[obs]
          IN  /\ Extracted(662, obs)
              /\ IF Includes(str, "cart") \/ Includes(str, "sepet")
                 THEN /\ pc' = "proceedToCheckout"
                      /\ UNCHANGED <<checkoutReached, timeline>>
                 ELSE ReachCheckout(timeline, currentUrl, clock')
              /\ UNCHANGED <<findings, addToCartSuccess, dropOffStep,
                             timeToAddToCart, currentUrl>>
       \/ CheckoutThrows("extract", 662)
    /\ UNCHANGED <<fixed, sessionUrl, cartCheckStr, caught>>

\* act: proceed from the cart page to the checkout
ProceedToCheckout ==
    /\ pc = "proceedToCheckout"
    /\ \/ /\ Returns("act", 667, 2000)
          /\ currentUrl' = CheckoutUrl
          /\ ReachCheckout(Push(timeline,
                                Event(clock', "Proceeded to checkout from cart",
                                      currentUrl')),
                           currentUrl', clock')
          /\ UNCHANGED <<findings, addToCartSuccess, dropOffStep, timeToAddToCart>>
       \/ CheckoutThrows("act", 667)
    /\ UNCHANGED <<fixed, sessionUrl, cartCheckStr, caught>>

----------------------------------------------------------------------------
(* The full variant: checkout form fill *)

\* a form-fill catch that reports as the checkout catch does
FormCatchAsCheckout(e) ==
    /\ findings' = Append(findings,
                          Finding("checkout-failed", "critical", ErrorEvidence(e)))
    /\ pc' = "close"

\* catch (formError): one warning, nothing else changes
FormCatch(e) ==
    /\ findings' = Append(findings,
                          Finding("checkout-form-issues", "warning", ErrorEvidence(e)))
    /\ pc' = "close"

\* a step of the form fill threw
FormThrows(op, line) ==
    \E e \in Thrown :
        /\ Throws(op, line)
        /\ FormCatch(e)
        /\ UNCHANGED <<timeline, currentUrl>>

\* a fill action of the form: act, settle, one timeline event
FormAct(here, line, settle, label, next) ==
    /\ pc = here
    /\ \/ /\ Returns("act", line, settle)
          /\ timeline' = Push(timeline, Event(clock', label, currentUrl))
          /\ pc' = next
          /\ UNCHANGED <<findings, currentUrl>>
       \/ FormThrows("act", line)
    /\ UNCHANGED <<fixed, flags, sessionUrl, cartCheckStr, caught>>

\* extract: is a login form or a guest option shown
LoginCheck ==
    /\ pc = "loginCheck"
    /\ \/ \E obs \in LoginCheckObs :
          LET str == Str[obs]
          IN  /\ Extracted(695, obs)
              /\ IF Includes(str, "login") \/ Includes(str, "guest")
                 THEN /\ pc' = "guestCheckout"
                      /\ UNCHANGED timeline
                 ELSE /\ pc' = "fillContact"
                      /\ timeline' = Push(timeline,
                             Event(clock', "Handling login/guest checkout", currentUrl))
              /\ UNCHANGED <<findings, currentUrl>>
       \/ FormThrows("extract", 695)
    /\ UNCHANGED <<fixed, flags, sessionUrl, cartCheckStr, caught>>

\* act: opt into guest checkout
GuestCheckout ==
    FormAct("guestCheckout", 700, 2000, "Handling login/guest checkout", "fillContact")

\* act: contact information
FillContact ==
    FormAct("fillContact", 713, 1500, "Filled contact information", "fillName")

\* act: name fields
FillName ==
    FormAct("fillName", 729, 1500, "Filled name fields", "fillAddress")

\* act: address fields
FillAddress ==
    FormAct("fillAddress", 746, 2000, "Filled address fields", "modalCheck")

\* extract: is an address modal open
ModalCheck ==
    /\ pc = "modalCheck"
    /\ \/ \E obs \in ModalCheckObs :
          LET str == Str[obs]
          IN  /\ Extracted(766, obs)
              /\ pc' = IF \/ Includes(str, "modal")
                          \/ Includes(str, "popup")
                          \/ Includes(str, "kaydet")
                          \/ Includes(str, "save")
                       THEN "saveModal"
                       ELSE "selectShipping"
              /\ UNCHANGED <<findings, timeline, currentUrl>>
       \/ FormThrows("extract", 766)
    /\ UNCHANGED <<fixed, flags, sessionUrl, cartCheckStr, caught>>

\* act: save the address in the modal
SaveModal ==
    FormAct("saveModal", 771, 2000, "Saved address from modal", "selectShipping")

\* act: pick the first shipping method
SelectShipping ==
    FormAct("selectShipping", 784, 1500, "Selected shipping method", "advanceToPayment")

\* act: advance to the payment step, never the final pay button
AdvanceToPayment ==
    FormAct("advanceToPayment", 800, 2000, "Filled checkout form with dummy data",
            "checkoutAnalysis")

\* a last step that clicks on the checkout page instead of reading it
CheckoutAnalysisActs ==
    /\ pc = "checkoutAnalysis"
    /\ \/ /\ Returns("act", 815, 0)
          /\ timeline' = Push(timeline,
                 Event(clock', "Analyzed checkout page for UX issues", currentUrl))
          /\ pc' = "close"
          /\ UNCHANGED <<findings, currentUrl>>
       \/ FormThrows("act", 815)
    /\ UNCHANGED <<fixed, flags, sessionUrl, cartCheckStr, caught>>

\* checkout-page UX extract, inside the try of the form fill
CheckoutAnalysis ==
    /\ pc = "checkoutAnalysis"
    /\ \/ \E obs \in CheckoutObs :
          /\ Extracted(815, obs)
          /\ findings' = findings \o CheckoutRules[obs]
          /\ timeline' = Push(timeline,
                 Event(clock', "Analyzed checkout page for UX issues", currentUrl))
          /\ pc' = "close"
          /\ UNCHANGED currentUrl
       \/ FormThrows("extract", 815)
    /\ UNCHANGED <<fixed, flags, sessionUrl, cartCheckStr, caught>>

----------------------------------------------------------------------------
(* The full variant: score, positive findings, close, return *)

\* score and positive findings are computed, then await stagehand.close()
\* inside the try: when it returns the completed result is returned, when
\* it throws the outermost catch is entered
Close ==
    /\ pc = "close"
    /\ LET f == CheckoutFormFilled(timeline)
           score == Score(addToCartSuccess, checkoutReached, f, findings)
           fs == findings \o PositiveFindings(addToCartSuccess, checkoutReached,
                                              f, timeToAddToCart)
       IN  /\ findings' = fs
           /\ \/ /\ Returns("close", 1063, 0)
                 /\ returned' = Some(CompletedResult(score, addToCartSuccess,
                                    timeToAddToCart, checkoutReached, f,
                                    dropOffStep, fs, timeline, sessionUrl))
                 /\ pc' = "done"
                 /\ UNCHANGED caught
              \/ \E e \in Thrown :
                 /\ Throws("close", 1063)
                 /\ ToOuterCatch(e)
                 /\ UNCHANGED returned
    /\ UNCHANGED <<service, variant, startTime, rejected, timeline, flags,
                   sessionUrl, currentUrl, cartCheckStr>>

\* catch (error): close inside its own try, then the failed result
CatchClose ==
    /\ pc = "catch"
    /\ variant = "full"
    /\ \/ Returns("close", 1085, 0)
       \/ \E e \in Thrown : Throws("close", 1085)
    /\ returned' = Some(FailedResult(ValueOf(caught), timeline, sessionUrl))
    /\ pc' = "done"
    /\ UNCHANGED <<service, variant, startTime, rejected, timeline, findings,
                   flags, sessionUrl, currentUrl, cartCheckStr, caught>>

----------------------------------------------------------------------------
(* The reduced variant (src/src/lib/agent.ts): the stages *)

\* where the reduced run goes after its add-to-cart stage
R_AfterAddToCart(tl, a, d, t) ==
    IF EnterCheckout(a, d)
    THEN [pc |-> "r_goToCheckout",
          timeline |-> Push(tl, Event(t, "Navigating to checkout", StoreUrl))]
    ELSE [pc |-> "r_close", timeline |-> tl]

\* where the reduced run goes after product discovery
R_AfterDiscovery(tl, a, d, t) ==
    IF EnterAddToCart(d)
    THEN [pc |-> "r_addToCart",
          timeline |-> Push(tl, Event(t, "Looking for Add to Cart button", StoreUrl))]
    ELSE R_AfterAddToCart(tl, a, d, t)

\* act: navigate to the store, inside the outer try only
R_Navigate ==
    /\ pc = "r_navigate"
    /\ \/ /\ Returns("act", 75, 0)
          /\ timeline' = Push(timeline, Event(clock', "Looking for products", StoreUrl))
          /\ pc' = "r_clickProduct"
          /\ UNCHANGED caught
       \/ \E e \in Thrown :
          /\ Throws("act", 75)
          /\ ToOuterCatch(e)
          /\ UNCHANGED timeline
    /\ UNCHANGED <<fixed, findings, flags, sessionUrl, currentUrl, cartCheckStr>>

\* act: click a product; catch: no-products
R_ClickProduct ==
    /\ pc = "r_clickProduct"
    /\ \/ LET tl == Push(timeline, Event(clock', "Clicked on a product", StoreUrl))
              next == R_AfterDiscovery(tl, addToCartSuccess, dropOffStep, clock')
          IN  /\ Returns("act", 87, 0)
              /\ pc' = next.pc
              /\ timeline' = next.timeline
              /\ UNCHANGED <<findings, dropOffStep>>
       \/ \E e \in Thrown :
          LET d == "product_discovery"
              next == R_AfterDiscovery(timeline, addToCartSuccess, d, clock')
          IN  /\ Throws("act", 87)
              /\ findings' = Append(findings,
                     Finding("no-products", "critical", ErrorEvidence(e)))
              /\ dropOffStep' = d
              /\ pc' = next.pc
              /\ timeline' = next.timeline
    /\ UNCHANGED <<fixed, addToCartSuccess, checkoutReached, timeToAddToCart,
                   sessionUrl, currentUrl, cartCheckStr, caught>>

\* act: add to cart; success is the act not throwing; catch: add-to-cart-failed
R_AddToCart ==
    /\ pc = "r_addToCart"
    /\ \/ LET tl == Push(timeline, Event(clock', "Added product to cart", StoreUrl))
              next == R_AfterAddToCart(tl, TRUE, dropOffStep, clock')
          IN  /\ Returns("act", 117, 0)
              /\ timeToAddToCart' = Some(ElapsedSeconds(startTime, clock'))
              /\ addToCartSuccess' = TRUE
              /\ pc' = next.pc
              /\ timeline' = next.timeline
              /\ UNCHANGED <<findings, dropOffStep>>
       \/ \E e \in Thrown :
          LET d == "add_to_cart"
              next == R_AfterAddToCart(timeline, addToCartSuccess, d, clock')
          IN  /\ Throws("act", 117)
              /\ findings' = Append(findings,
                     Finding("add-to-cart-failed", "critical", ErrorEvidence(e)))
              /\ dropOffStep' = d
              /\ pc' = next.pc
              /\ timeline' = next.timeline
              /\ UNCHANGED <<addToCartSuccess, timeToAddToCart>>
    /\ UNCHANGED <<fixed, checkoutReached, sessionUrl, currentUrl, cartCheckStr,
                   caught>>

\* catch (e) of the reduced checkout stage
R_CheckoutThrows(op, line) ==
    \E e \in Thrown :
        /\ Throws(op, line)
        /\ dropOffStep' = "checkout_navigation"
        /\ findings' = Append(findings,
               Finding("checkout-failed", "critical", ErrorEvidence(e)))
        /\ pc' = "r_close"
        /\ UNCHANGED <<checkoutReached, timeline>>

\* act: go to the cart or the checkout
R_GoToCheckout ==
    /\ pc = "r_goToCheckout"
    /\ \/ /\ Returns("act", 152, 0)
          /\ pc' = "r_pageInfo"
          /\ UNCHANGED <<findings, dropOffStep, checkoutReached, timeline>>
       \/ R_CheckoutThrows("act", 152)
    /\ UNCHANGED <<fixed, addToCartSuccess, timeToAddToCart, sessionUrl,
                   currentUrl, cartCheckStr, caught>>

\* const isCheckout
IsCheckout(pageInfoStr) ==
    \/ Includes(pageInfoStr, "checkout")
    \/ Includes(pageInfoStr, "cart")
    \/ Includes(pageInfoStr, "shipping")
    \/ Includes(pageInfoStr, "payment")

\* extract: which page is this; checkout reached, or a drop-off with a warning
R_PageInfo ==
    /\ pc = "r_pageInfo"
    /\ \/ \E obs \in PageInfoObs :
          /\ Extracted(155, obs)
          /\ IF IsCheckout(Str[obs])
             THEN /\ checkoutReached' = TRUE
                  /\ timeline' = Push(timeline,
                         Event(clock', "Reached checkout/cart page", StoreUrl))
                  /\ UNCHANGED <<findings, dropOffStep>>
             ELSE /\ dropOffStep' = "checkout_navigation"
                  /\ findings' = Append(findings,
                         Finding("checkout-nav-unclear", "warning",
                                 "Page info: " \o Str[obs]))
                  /\ UNCHANGED <<checkoutReached, timeline>>
          /\ pc' = "r_close"
       \/ R_CheckoutThrows("extract", 155)
    /\ UNCHANGED <<fixed, addToCartSuccess, timeToAddToCart, sessionUrl,
                   currentUrl, cartCheckStr, caught>>

----------------------------------------------------------------------------
(* The reduced variant: score, close, return *)

\* the reduced score with the penalties of the full variant: 8 a warning,
\* 5 a suggestion
R_ScoreFullPenalties(a, c, fs) ==
    LET score == 50 + (IF a THEN 25 ELSE 0) + (IF c THEN 25 ELSE 0)
                    - CountCategory(fs, "critical") * 15
                    - CountCategory(fs, "warning") * 8
                    - CountCategory(fs, "suggestion") * 5
    IN  Max(0, Min(100, score))

\* the score of the reduced variant
R_Score(a, c, fs) ==
    LET score == 50 + (IF a THEN 25 ELSE 0) + (IF c THEN 25 ELSE 0)
                    - CountCategory(fs, "critical") * 15
                    - CountCategory(fs, "warning") * 5
    IN  Max(0, Min(100, score))

\* the finding the reduced variant appends after the score
R_FastFinding(a, t) ==
    When(a /\ t # None /\ NumberOf(t) # 0 /\ NumberOf(t) < 30,
         Finding("fast-add-to-cart", "suggestion",
                 "Time: " \o ToString(NumberOf(t)) \o "s"))

\* the result object of the normal return of the reduced variant
R_CompletedResult(score, a, t, c, d, fs, tl, su) ==
    [run_id |-> RunId, store_url |-> StoreUrl, status |-> "completed",
     score |-> score,
     metrics |-> [add_to_cart_success |-> a,
                  time_to_add_to_cart_seconds |-> t,
                  checkout_reached |-> c,
                  drop_off_step |-> d],
     findings |-> fs, timeline |-> tl, session_url |-> su,
     error |-> NULL]

\* the result object the outermost catch of the reduced variant returns
R_FailedResult(e, tl, su) ==
    [run_id |-> RunId, store_url |-> StoreUrl, status |-> "failed",
     score |-> 0,
     metrics |-> [add_to_cart_success |-> FALSE,
                  time_to_add_to_cart_seconds |-> None,
                  checkout_reached |-> FALSE,
                  drop_off_step |-> "initialization"],
     findings |-> <<Finding("analysis-failed", "critical", ErrorMessage(e))>>,
     timeline |-> tl, session_url |-> su,
     error |-> ErrorMessage(e)]

\* score, fast-add-to-cart, then await stagehand.close() inside the try
R_Close ==
    /\ pc = "r_close"
    /\ LET score == R_Score(addToCartSuccess, checkoutReached, findings)
           fs == findings \o R_FastFinding(addToCartSuccess, timeToAddToCart)
       IN  /\ findings' = fs
           /\ \/ /\ Returns("close", 216, 0)
                 /\ returned' = Some(R_CompletedResult(score, addToCartSuccess,
                                    timeToAddToCart, checkoutReached,
                                    dropOffStep, fs, timeline, sessionUrl))
                 /\ pc' = "done"
                 /\ UNCHANGED caught
              \/ \E e \in Thrown :
                 /\ Throws("close", 216)
                 /\ ToOuterCatch(e)
                 /\ UNCHANGED returned
    /\ UNCHANGED <<service, variant, startTime, rejected, timeline, flags,
                   sessionUrl, currentUrl, cartCheckStr>>

\* catch (error) of the reduced variant: close in its own try, failed result
R_CatchClose ==
    /\ pc = "catch"
    /\ variant = "reduced"
    /\ \/ Returns("close", 237, 0)
       \/ \E e \in Thrown : Throws("close", 237)
    /\ returned' = Some(R_FailedResult(ValueOf(caught), timeline, sessionUrl))
    /\ pc' = "done"
    /\ UNCHANGED <<service, variant, startTime, rejected, timeline, findings,
                   flags, sessionUrl, currentUrl, cartCheckStr, caught>>

----------------------------------------------------------------------------
(* The routes: POST start (src/src/lib/agent.ts 304-383) and GET poll      *)
(* (src/src/app/api/run/[id]/route.ts).  A handler runs to completion      *)
(* once its body is read; the run it starts proceeds between handlers.     *)

MaxPolls == 3

\* what request.json() gives: an object with or without store_url, or it
\* throws (parsed = FALSE)
Body(parsed, store_url) == [parsed |-> parsed, store_url |-> store_url]
Bodies ==
    { Body(TRUE, StoreUrl), Body(TRUE, "shop.example"), Body(TRUE, "http://"),
      Body(TRUE, ""), Body(TRUE, NULL), Body(FALSE, NULL) }

\* if (!store_url) is not taken
Truthy(store_url) == store_url # NULL /\ store_url # ""

IsLetter(c) == \E k \in 1..26 : UpperCase[k] = c \/ LowerCase[k] = c
IsSchemeChar(c) == IsLetter(c) \/ IsDigit(c) \/ c \in {"+", "-", "."}

RECURSIVE SchemeEnd(_, _)
\* index of the ':' that ends the scheme read from i on, 0 when there is none
SchemeEnd(s, i) ==
    IF CharAt(s, i) = ":" THEN i
    ELSE IF IsSchemeChar(CharAt(s, i)) THEN SchemeEnd(s, i + 1) ELSE 0

RECURSIVE SlashesEnd(_, _)
\* index just after the run of slashes that starts at i
SlashesEnd(s, i) == IF CharAt(s, i) = "/" THEN SlashesEnd(s, i + 1) ELSE i

\* a validation that lets every non-empty store_url through
ParsesAlways(s) == TRUE

\* new URL(store_url) does not throw: an absolute URL has a scheme, and an
\* http(s) URL has a host after its slashes
ParsesAsUrl(s) ==
    /\ IsLetter(CharAt(s, 1))
    /\ LET colon == SchemeEnd(s, 2)
       IN  /\ colon > 0
           /\ ToLowerCase(SubSeq(s, 1, colon - 1)) \in {"http", "https"}
                  => SlashesEnd(s, colon + 1) <= Len(s)

\* { status: 'running' } and { status, result }
Running == [status |-> "running", result |-> None]
Entry(status, result) == [status |-> status, result |-> Some(result)]

\* resultsStore.set(key, value)
MapSet(map, key, value) == (key :> value) @@ map

\* NextResponse.json(body, { status: code })
Json(code, body) == [code |-> code, body |-> body]

\* the result the .catch of the start route stores for a rejected run
RejectedResult(e, store_url) ==
    [run_id |-> RunId, store_url |-> store_url, status |-> "failed",
     score |-> 0,
     metrics |-> [add_to_cart_success |-> FALSE,
                  time_to_add_to_cart_seconds |-> None,
                  checkout_reached |-> FALSE,
                  checkout_form_filled |-> FALSE,
                  drop_off_step |-> "initialization"],
     findings |-> <<Finding("error", "critical",
                            IF e.isError THEN "Error: " \o e.message ELSE e.message)>>,
     timeline |-> <<>>, session_url |-> NULL,
     error |-> IF e.isError THEN e.message ELSE NULL]

\* the promise of runAnalysis has settled and its .then/.catch reaction has
\* not run yet: reactions run before the next request handler does
ReactionPending ==
    /\ pc \in {"done", "rejected"}
    /\ RunId \in DOMAIN resultsStore
    /\ resultsStore[RunId].status = "running"

\* what no route changes: the locals of the run, and which invocations of
\* runAnalysis are in flight
locals == <<variant, timeline, findings, flags, sessionUrl, currentUrl,
            startTime, cartCheckStr, caught, clock, calls, returned, rejected,
            current, parked>>

\* POST: read the body, validate store_url, store { status: 'running' },
\* call runAnalysis without awaiting it, respond.  The model holds one run,
\* so one valid submit is taken; the id randomUUID() gives it is RunId.
Submit ==
    /\ ~ReactionPending
    /\ \E body \in Bodies :
        /\ requestBody' = Some(body)
        /\ IF ~body.parsed
           THEN /\ submitResponse' = Some(Json(500, [error |-> "Failed to start analysis"]))
                /\ UNCHANGED <<resultsStore, pc>>
           ELSE IF ~Truthy(body.store_url)
           THEN /\ submitResponse' = Some(Json(400, [error |-> "Store URL is required"]))
                /\ UNCHANGED <<resultsStore, pc>>
           ELSE IF ~ParsesAsUrl(body.store_url)
           THEN /\ submitResponse' = Some(Json(400, [error |-> "Invalid URL format"]))
                /\ UNCHANGED <<resultsStore, pc>>
           ELSE /\ pc = "idle"
                /\ resultsStore' = MapSet(resultsStore, RunId, Running)
                /\ pc' = "load"
                /\ submitResponse' =
                       Some(Json(200, [run_id |-> RunId, store_url |-> body.store_url,
                                       status |-> "running"]))
    /\ UNCHANGED <<polls, locals>>

\* the run ids a client polls: the one a submit gives, and one never given
PollIds == { RunId, "run-0" }

\* a poll that takes an entry without a result for an unknown run
PollResponseNeedsResult(runId, store) ==
    IF runId \notin DOMAIN store \/ store[runId].result = None
    THEN Json(404, [error |-> "Run not found"])
    ELSE Json(200, ValueOf(store[runId].result)
                   @@ [run_id |-> runId, status |-> store[runId].status])

\* a poll that answers with the entry's status alone
PollResponseStatusOnly(runId, store) ==
    IF runId \notin DOMAIN store
    THEN Json(404, [error |-> "Run not found"])
    ELSE Json(200, [run_id |-> runId, status |-> store[runId].status])

\* a GET that spreads the result first, so that the entry's status wins:
\* { ...stored.result, run_id, status: stored.status }
PollResponseEntryStatus(runId, store) ==
    IF runId \notin DOMAIN store
    THEN Json(404, [error |-> "Run not found"])
    ELSE IF store[runId].status = "running"
    THEN Json(200, [run_id |-> runId, status |-> "running"])
    ELSE Json(200, [run_id |-> runId, status |-> store[runId].status]
                   @@ ValueOf(store[runId].result))

\* GET: 404 for an unknown id, { run_id, status } while running, else
\* { run_id, status: stored.status, ...stored.result }
PollResponse(runId, store) ==
    IF runId \notin DOMAIN store
    THEN Json(404, [error |-> "Run not found"])
    ELSE IF store[runId].status = "running"
    THEN Json(200, [run_id |-> runId, status |-> "running"])
    ELSE Json(200, ValueOf(store[runId].result)
                   @@ [run_id |-> runId, status |-> store[runId].status])

Poll ==
    /\ ~ReactionPending
    /\ Len(polls) < MaxPolls
    /\ \E runId \in PollIds :
           polls' = Append(polls, [id |-> runId,
                                   response |-> PollResponse(runId, resultsStore)])
    /\ UNCHANGED <<resultsStore, requestBody, submitResponse, pc, locals>>

\* a reaction that stores under the run id of the latest submit, as it would
\* with runId kept in a variable of the module
StoreResultLatestId ==
    /\ pc = "done"
    /\ ReactionPending
    /\ resultsStore' = MapSet(resultsStore,
                              IF parked # None THEN "run-2" ELSE RunId,
                              Entry("completed", ValueOf(returned)))
    /\ UNCHANGED <<requestBody, submitResponse, polls, pc, locals>>

\* .then((result) => resultsStore.set(runId, { status: 'completed', result }))
StoreResult ==
    /\ pc = "done"
    /\ ReactionPending
    /\ resultsStore' = MapSet(resultsStore, RunId, Entry("completed", ValueOf(returned)))
    /\ UNCHANGED <<requestBody, submitResponse, polls, pc, locals>>

\* a .catch reaction that only logs and leaves the entry as it is
StoreRejectionLogsOnly ==
    /\ pc = "rejected"
    /\ ReactionPending
    /\ resultsStore' = MapSet(resultsStore, RunId, Running)
    /\ UNCHANGED <<requestBody, submitResponse, polls, pc, locals>>

\* .catch((error) => resultsStore.set(runId, { status: 'failed', result: {...} }))
StoreRejection ==
    /\ pc = "rejected"
    /\ ReactionPending
    /\ resultsStore' = MapSet(resultsStore, RunId,
                              Entry("failed", RejectedResult(ValueOf(rejected), StoreUrl)))
    /\ UNCHANGED <<requestBody, submitResponse, polls, pc, locals>>

----------------------------------------------------------------------------
(* The run *)

Next ==
    \/ LoadStagehand
    \/ StagehandInit
    \/ Goto
    \/ HomepageAnalysis
    \/ InitialPageCheck
    \/ NavigateToProducts
    \/ ClickCategory
    \/ ClickProduct
    \/ ProductPageCheck
    \/ ClickProductRetry
    \/ ProductPageAnalysis
    \/ AddToCart
    \/ ErrorCheck
    \/ SelectVariant
    \/ RetryAddToCart
    \/ SecondErrorCheck
    \/ DropdownAttempt
    \/ CartCheck
    \/ CartExperienceAnalysis
    \/ FinalErrorCheck
    \/ GoToCart
    \/ CartPageInfo
    \/ ProceedToCheckout
    \/ LoginCheck
    \/ GuestCheckout
    \/ FillContact
    \/ FillName
    \/ FillAddress
    \/ ModalCheck
    \/ SaveModal
    \/ SelectShipping
    \/ AdvanceToPayment
    \/ CheckoutAnalysis
    \/ Close
    \/ CatchClose
    \/ R_Navigate
    \/ R_ClickProduct
    \/ R_AddToCart
    \/ R_GoToCheckout
    \/ R_PageInfo
    \/ R_Close
    \/ R_CatchClose

Spec == Init /\ [][Next]_vars

----------------------------------------------------------------------------
(* Properties of the run: the outcome of runAnalysis *)

\* C1: runAnalysis never throws: its promise never rejects, and every run
\* that has ended has ended with a returned result whose status is set and
\* whose error or findings are populated.
C1_NeverThrows ==
    /\ rejected = None
    /\ pc # "rejected"
    /\ returned # None =>
          LET r == ValueOf(returned)
          IN  /\ r.status \in {"completed", "failed"}
              /\ r.status = "failed" => r.error # NULL /\ r.findings # <<>>

\* C2: on every exit path the session is closed exactly once: a run that
\* has returned has exactly one close() call in its history.
C2_ClosedExactlyOnce ==
    returned # None =>
        Cardinality({ i \in DOMAIN calls : calls[i].op = "close" }) = 1

\* C3: a failure of close() never masks the outcome: when close() is the
\* only call that threw, the returned result is completed and carries the
\* score, metrics, findings and drop_off_step the stages produced.
C3_CloseFailureSwallowed ==
    ( /\ returned # None
      /\ \E i \in DOMAIN calls : calls[i].op = "close" /\ calls[i].threw
      /\ \A i \in DOMAIN calls : calls[i].threw => calls[i].op = "close" )
    =>
    LET r == ValueOf(returned)
    IN  /\ r.status = "completed"
        /\ r.error = NULL
        /\ r.score = IF variant = "full"
                     THEN Score(addToCartSuccess, checkoutReached,
                                CheckoutFormFilled(timeline), findings)
                     ELSE R_Score(addToCartSuccess, checkoutReached, findings)
        /\ r.findings = findings
        /\ r.metrics.add_to_cart_success = addToCartSuccess
        /\ r.metrics.time_to_add_to_cart_seconds = timeToAddToCart
        /\ r.metrics.checkout_reached = checkoutReached
        /\ r.metrics.drop_off_step = dropOffStep

\* C4: status = failed with an error is returned only when initialisation
\* or the initial navigation failed; a run in which a call of product
\* discovery, add-to-cart, checkout navigation or form filling threw
\* returns status = completed with no error.
C4_FailedOnlyAtTopLevel ==
    returned # None =>
        LET r == ValueOf(returned)
            setupThrew ==
                \E i \in DOMAIN calls :
                    /\ calls[i].threw
                    /\ \/ calls[i].op \in {"init", "goto"}
                       \/ variant = "reduced" /\ calls[i].line = 75
            stageThrew ==
                \E i \in DOMAIN calls :
                    /\ calls[i].threw
                    /\ calls[i].op \in {"act", "extract"}
                    /\ ~(variant = "reduced" /\ calls[i].line = 75)
        IN  /\ r.status = "failed" => r.error # NULL /\ setupThrew
            /\ r.status = "completed" => r.error = NULL
            /\ stageThrew => r.status = "completed"

\* C5: once dropOffStep is set no further act or extract call is issued,
\* and the run returns status = completed.
C5_DropOffEndsTheFunnel ==
    /\ [][dropOffStep # NULL =>
            \A i \in DOMAIN calls' :
                i > Len(calls) => calls'[i].op \notin {"act", "extract"}]_vars
    /\ [](returned # None /\ dropOffStep # NULL =>
            ValueOf(returned).status = "completed")

----------------------------------------------------------------------------
(* Properties of the run: score and metrics of the returned result *)

\* C6: in every returned result the score is an integer in [0,100],
\* whatever the funnel flags and the findings are.
C6_ScoreInRange ==
    returned # None => ValueOf(returned).score \in 0..100

\* a completed full run whose findings cost more than the 40 points of
\* the UX component: the floor of the score is what keeps it in range
C6_Witness ==
    /\ returned # None
    /\ variant = "full"
    /\ ValueOf(returned).status = "completed"
    /\ LET fs == ValueOf(returned).findings
       IN  CountCategory(fs, "critical") * 15 + CountCategory(fs, "warning") * 8
           + CountCategory(fs, "suggestion") * 5 > 40

\* C7, as the spec states it: in every returned result drop_off_step is
\* non-null if and only if checkout_form_filled is false.
C7_DropOffIffNotFilled ==
    returned # None /\ variant = "full" =>
        LET m == ValueOf(returned).metrics
        IN  m.drop_off_step # NULL <=> ~m.checkout_form_filled

\* C7: in every returned result a non-null drop_off_step implies that
\* checkout_form_filled is false, so a run in which every stage succeeded
\* (the form was filled; in the reduced variant, which has no form stage,
\* checkout was reached) has drop_off_step = null. The converse fails: a
\* failed form fill leaves drop_off_step null.
C7_DropOffImpliesNotFilled ==
    returned # None =>
        LET m == ValueOf(returned).metrics
        IN  IF variant = "full"
            THEN m.drop_off_step # NULL => ~m.checkout_form_filled
            ELSE m.drop_off_step # NULL => ~m.checkout_reached

\* a full run that went through every stage and filled the form
C7_Witness ==
    /\ returned # None
    /\ variant = "full"
    /\ ValueOf(returned).metrics.checkout_form_filled
    /\ ValueOf(returned).metrics.drop_off_step = NULL

\* C8: in every returned result time_to_add_to_cart_seconds is non-null
\* if and only if add_to_cart_success is true, and when non-null it is >= 0.
C8_TimeIffAddToCart ==
    returned # None =>
        LET m == ValueOf(returned).metrics
        IN  /\ m.time_to_add_to_cart_seconds # None <=> m.add_to_cart_success
            /\ m.time_to_add_to_cart_seconds # None =>
                   NumberOf(m.time_to_add_to_cart_seconds) >= 0

\* a returned result of a run that added a product to the cart
C8_Witness ==
    /\ returned # None
    /\ ValueOf(returned).metrics.add_to_cart_success
    /\ ValueOf(returned).metrics.time_to_add_to_cart_seconds # None

----------------------------------------------------------------------------
(* Properties of the run: the timeline *)

\* C9: the timeline is append-only (every step leaves the events recorded
\* so far where they are), timestamps are non-decreasing along it, and the
\* stage events appear in funnel order: navigate, product discovery,
\* product page, add-to-cart, checkout navigation, form fill.
C9_TimelineAppendOnly ==
    /\ [][/\ Len(timeline') >= Len(timeline)
          /\ SubSeq(timeline', 1, Len(timeline)) = timeline]_vars
    /\ [](LET StageOf(action) ==
                  CASE action \in {"Navigate to store", "Analyzed homepage UX"} -> 1
                    [] action \in {"Looking for products",
                                   "Navigated to product page",
                                   "Clicked on a product"} -> 2
                    [] action \in {"Analyzed product page UX"} -> 3
                    [] action \in {"Looking for Add to Cart button",
                                   "Detected size/variant selection required",
                                   "Added product to cart",
                                   "Analyzed cart experience"} -> 4
                    [] action \in {"Navigating to cart/checkout",
                                   "Navigating to checkout",
                                   "Clicked cart/checkout button",
                                   "Proceeded to checkout from cart",
                                   "Reached checkout/cart page"} -> 5
                    [] OTHER -> 6
          IN  \A i, j \in DOMAIN timeline :
                  i < j => /\ timeline[i].timestamp <= timeline[j].timestamp
                           /\ StageOf(timeline[i].action) <= StageOf(timeline[j].action))

\* a returned run whose timeline goes from the navigation to the filled
\* checkout form, with time passing between its events
C9_Witness ==
    /\ returned # None
    /\ Len(timeline) >= 6
    /\ timeline[1].action = "Navigate to store"
    /\ timeline[Len(timeline)].timestamp > timeline[1].timestamp
    /\ \E i \in DOMAIN timeline :
           timeline[i].action = "Filled checkout form with dummy data"

\* C10: every attempted action is recorded with a success flag that is
\* true exactly when the action did not throw: a run in which an act call
\* threw has a timeline event with success = false.
C10_SuccessFlagReflectsThrow ==
    (\E i \in DOMAIN calls : calls[i].op = "act" /\ calls[i].threw)
    => \E j \in DOMAIN timeline : ~timeline[j].success

----------------------------------------------------------------------------
(* Properties of the run: the failed result and the stage drop-offs *)

\* C11: when the outermost catch was entered (initialisation or the initial
\* navigation threw, or an exception escaped the stages) the result has
\* status failed, score 0, add_to_cart_success and checkout_reached false,
\* no time to add to cart, drop_off_step "initialization", error set, and
\* exactly one finding, the critical analysis-failed, whatever findings
\* had been accumulated.
C11_FailedResultShape ==
    returned # None /\ caught # None =>
        LET r == ValueOf(returned)
        IN  /\ r.status = "failed"
            /\ r.score = 0
            /\ ~r.metrics.add_to_cart_success
            /\ ~r.metrics.checkout_reached
            /\ r.metrics.time_to_add_to_cart_seconds = None
            /\ r.metrics.drop_off_step = "initialization"
            /\ r.error # NULL
            /\ r.error = ErrorMessage(ValueOf(caught))
            /\ Len(r.findings) = 1
            /\ r.findings[1].id = "analysis-failed"
            /\ r.findings[1].category = "critical"

\* a failed result of a run that had added to the cart and had findings
C11_Witness ==
    /\ returned # None
    /\ caught # None
    /\ ValueOf(returned).status = "failed"
    /\ addToCartSuccess
    /\ Len(findings) >= 2

\* C12: a run in which a call of product discovery threw returns status
\* completed, drop_off_step "product_discovery", add_to_cart_success false,
\* and findings with exactly one critical finding, whose id is no-products.
C12_DiscoveryDropOff ==
    ( /\ returned # None
      /\ \E i \in DOMAIN calls :
             /\ calls[i].threw
             /\ IF variant = "full"
                THEN calls[i].line \in {184, 193, 207, 218, 230, 237}
                ELSE calls[i].line = 87 )
    =>
    LET r == ValueOf(returned)
        criticals == { i \in DOMAIN r.findings : r.findings[i].category = "critical" }
    IN  /\ r.status = "completed"
        /\ r.metrics.drop_off_step = "product_discovery"
        /\ ~r.metrics.add_to_cart_success
        /\ Cardinality(criticals) = 1
        /\ \A i \in criticals : r.findings[i].id = "no-products"

----------------------------------------------------------------------------
(* Properties of the run: the score *)

\* C13: the score of a completed run of the full variant is the clamp to
\* [0,100] of 20 per funnel flag (add to cart, checkout reached, form
\* filled) plus max(0, 40 - 15 criticals - 8 warnings - 5 suggestions); the
\* positive findings appended after the score do not change it, so the
\* counts may be taken over the findings of the result.
C13_ScoreFormula ==
    ( /\ returned # None
      /\ variant = "full"
      /\ ValueOf(returned).status = "completed" )
    =>
    LET r == ValueOf(returned)
        n(category) ==
            Cardinality({ i \in DOMAIN r.findings : r.findings[i].category = category })
        funnel == (IF r.metrics.add_to_cart_success THEN 20 ELSE 0)
                  + (IF r.metrics.checkout_reached THEN 20 ELSE 0)
                  + (IF r.metrics.checkout_form_filled THEN 20 ELSE 0)
        ux == 40 - 15 * n("critical") - 8 * n("warning") - 5 * n("suggestion")
        sum == funnel + (IF ux > 0 THEN ux ELSE 0)
    IN  r.score = IF sum > 100 THEN 100 ELSE IF sum < 0 THEN 0 ELSE sum

\* a completed run with funnel points, penalties that leave part of the UX
\* component, and positive findings in its result
C13_Witness ==
    /\ returned # None
    /\ variant = "full"
    /\ ValueOf(returned).status = "completed"
    /\ ValueOf(returned).metrics.checkout_reached
    /\ \E i \in DOMAIN ValueOf(returned).findings :
           ValueOf(returned).findings[i].category = "positive"
    /\ \E i \in DOMAIN ValueOf(returned).findings :
           ValueOf(returned).findings[i].category = "warning"
    /\ \E i \in DOMAIN ValueOf(returned).findings :
           ValueOf(returned).findings[i].category = "suggestion"
    /\ ValueOf(returned).score \in 41..99

\* C14: a completed run that added to the cart, reached checkout and filled
\* the form, with no critical, warning or suggestion finding, scores at
\* least 80.
C14_CleanRunScore ==
    ( /\ returned # None
      /\ variant = "full"
      /\ ValueOf(returned).status = "completed"
      /\ ValueOf(returned).metrics.add_to_cart_success
      /\ ValueOf(returned).metrics.checkout_reached
      /\ ValueOf(returned).metrics.checkout_form_filled
      /\ \A i \in DOMAIN ValueOf(returned).findings :
             ValueOf(returned).findings[i].category = "positive" )
    => ValueOf(returned).score >= 80

\* a completed run through every stage whose observations raised no issue
C14_Witness ==
    /\ returned # None
    /\ variant = "full"
    /\ ValueOf(returned).status = "completed"
    /\ ValueOf(returned).metrics.add_to_cart_success
    /\ ValueOf(returned).metrics.checkout_reached
    /\ ValueOf(returned).metrics.checkout_form_filled
    /\ \A i \in DOMAIN ValueOf(returned).findings :
           ValueOf(returned).findings[i].category = "positive"
    /\ ValueOf(returned).score = 100

----------------------------------------------------------------------------
(* Properties of the classification of observations *)

\* C15: when the homepage extract resolves to "no search bar visible,
\* navigation is clear", the homepage rules append a homepage-no-search
\* warning and no homepage-navigation-unclear finding.
C15_ScenarioA ==
    ( /\ variant = "full"
      /\ \E i \in DOMAIN calls :
             /\ calls[i].line = 97
             /\ ~calls[i].threw
             /\ calls[i].got = "no search bar visible, navigation is clear" )
    =>
    /\ \E j \in DOMAIN findings :
           findings[j].id = "homepage-no-search" /\ findings[j].category = "warning"
    /\ \A j \in DOMAIN findings : findings[j].id # "homepage-navigation-unclear"

\* C16: in the full variant add_to_cart_success is set exactly when the
\* cart check resolved and its lowercased text has none of the negative
\* terms ("0" as a value, "0 item", "empty", "no item") and at least one of
\* the positive terms ("1", "item", "added", "eklendi", "success"); "cart
\* icon shows 0 items, no success message" is classified as not added and
\* "cart icon shows 1 item, sepete eklendi" as added.
C16_HasItemsHeuristic ==
    variant = "full" =>
        LET has(term) == Includes(cartCheckStr, term)
            negative == has("\"0\"") \/ has("0 item") \/ has("empty") \/ has("no item")
            positive == has("1") \/ has("item") \/ has("added")
                        \/ has("eklendi") \/ has("success")
        IN  /\ addToCartSuccess <=> (cartCheckStr # NULL /\ ~negative /\ positive)
            /\ \A i \in DOMAIN calls :
                   calls[i].line = 471 /\ ~calls[i].threw =>
                       /\ calls[i].got = "cart icon shows 0 items, no success message"
                              => ~addToCartSuccess
                       /\ calls[i].got = "cart icon shows 1 item, sepete eklendi"
                              => addToCartSuccess

\* the cart check resolved to the text of an added item and the run took
\* it as added
C16_Witness ==
    /\ variant = "full"
    /\ \E i \in DOMAIN calls :
           /\ calls[i].line = 471
           /\ ~calls[i].threw
           /\ calls[i].got = "cart icon shows 1 item, sepete eklendi"
    /\ addToCartSuccess
    /\ timeToAddToCart # None

\* C17: classification is deterministic: whenever a UX extract of the full
\* variant (homepage, product page, cart experience, checkout) resolves to
\* an observation, the step appends to the findings, in order, the findings
\* that the rule set gives for that text, the same in every state of the
\* run in which it happens; the findings for each text are listed here.
C17_ClassificationDeterministic ==
    [][( /\ variant = "full"
         /\ Len(calls') = Len(calls) + 1
         /\ calls'[Len(calls')].op = "extract"
         /\ ~calls'[Len(calls')].threw
         /\ calls'[Len(calls')].line \in {97, 252, 498, 815} )
       =>
       LET text == calls'[Len(calls')].got
           appended == SubSeq(findings', Len(findings) + 1, Len(findings'))
           expected ==
               CASE text = "Search icon visible, clean navigation" -> <<>>
                 [] text = "no search bar visible, navigation is clear" -> <<>>
                 [] text = "no search, cluttered, intrusive popup" ->
                        <<"homepage-no-search", "homepage-navigation-unclear",
                          "homepage-intrusive-popups">>
                 [] text = "price clear, reviews shown, in stock, free shipping" -> <<>>
                 [] text = "price not visible, small image" ->
                        <<"product-price-unclear", "product-images-poor",
                          "product-no-reviews", "product-no-stock-info",
                          "product-no-shipping-info">>
                 [] text = "confirmation popup, free shipping bar, related products" -> <<>>
                 [] text = "checkout button hidden" ->
                        <<"cart-no-feedback", "cart-no-shipping-threshold",
                          "cart-no-upsell", "cart-checkout-unclear">>
                 [] text = "coupon field, trust badges, free shipping, related items, step 2 of 3, 6 fields" -> <<>>
                 [] text = "login required, 12 form fields, validation error message" ->
                        <<"no-discount-field", "no-upsell", "no-trust-badges",
                          "no-free-shipping-threshold", "checkout-no-guest",
                          "checkout-too-many-fields", "checkout-no-progress",
                          "checkout-has-errors">>
       IN  /\ Len(findings') >= Len(findings)
           /\ SubSeq(findings', 1, Len(findings)) = findings
           /\ [i \in DOMAIN appended |-> appended[i].id] = expected]_vars

\* the cart-experience rules were applied in a run that had already
\* accumulated findings from earlier observations and had set a flag
C17_Witness ==
    /\ variant = "full"
    /\ addToCartSuccess
    /\ \E i \in DOMAIN calls :
           /\ calls[i].line = 97
           /\ calls[i].got = "no search, cluttered, intrusive popup"
    /\ \E i \in DOMAIN calls :
           /\ calls[i].line = 498
           /\ calls[i].got = "checkout button hidden"
    /\ \E j \in DOMAIN findings : findings[j].id = "cart-checkout-unclear"
    /\ Len(findings) >= 7

----------------------------------------------------------------------------
(* The service: a submit starts the run of src/src/lib/agent.ts, polls and *)
(* further submits interleave with it                                      *)

ServiceInit ==
    /\ variant = "reduced"
    /\ pc = "idle"
    /\ InitRun

ServiceNext ==
    \/ Submit
    \/ Poll
    \/ StoreResult
    \/ StoreRejection
    \/ LoadStagehand
    \/ StagehandInit
    \/ R_Navigate
    \/ R_ClickProduct
    \/ R_AddToCart
    \/ R_GoToCheckout
    \/ R_PageInfo
    \/ R_Close
    \/ R_CatchClose

ServiceSpec == ServiceInit /\ [][ServiceNext]_vars

\* C18: a submit whose store_url is missing (absent or empty) or does not
\* parse as a URL is answered 400, creates no registry entry and starts no
\* run; a submit with a valid URL stores the entry { status: running } for
\* the new run id and answers { run_id, store_url, status: running } while
\* the run it started has not finished.
C18_SubmitValidation ==
    [][(requestBody' # requestBody \/ submitResponse' # submitResponse)
       =>
       LET body == ValueOf(requestBody')
           response == ValueOf(submitResponse')
           missing == body.store_url = NULL \/ body.store_url = ""
           malformed == body.store_url \in {"shop.example", "http://"}
       IN  /\ body.parsed /\ (missing \/ malformed) =>
                  /\ response.code = 400
                  /\ resultsStore' = resultsStore
                  /\ pc' = pc
                  /\ calls' = calls
           /\ body.parsed /\ body.store_url = "https://shop.example" =>
                  /\ RunId \notin DOMAIN resultsStore
                  /\ RunId \in DOMAIN resultsStore'
                  /\ resultsStore'[RunId] = [status |-> "running", result |-> None]
                  /\ response = [code |-> 200,
                                 body |-> [run_id |-> RunId,
                                           store_url |-> "https://shop.example",
                                           status |-> "running"]]
                  /\ pc = "idle" /\ pc' = "load"
                  /\ returned' = None /\ rejected' = None]_vars

\* a submit was rejected with 400 after an earlier one had been accepted and
\* had created the entry of its run
C18_Witness ==
    /\ submitResponse # None
    /\ ValueOf(submitResponse).code = 400
    /\ ValueOf(requestBody).store_url = "shop.example"
    /\ RunId \in DOMAIN resultsStore
    /\ resultsStore[RunId].status = "running"
    /\ pc = "load"

\* C19: a poll of a run id that no submit has returned is answered 404; a
\* poll of the run id a submit has returned is never answered 404, whenever
\* it comes, before or after the run has settled; no entry of the registry
\* is ever removed.
C19_PollReadAfterWrite ==
    [][/\ DOMAIN resultsStore \subseteq DOMAIN resultsStore'
       /\ Len(polls') = Len(polls) + 1 =>
              LET poll == polls'[Len(polls')]
                  submitted == poll.id = RunId /\ pc # "idle"
              IN  IF submitted
                  THEN poll.response.code = 200
                  ELSE poll.response.code = 404]_vars

\* the same run id polled before its submit (404), while the run was
\* running, and after the run had settled
C19_Witness ==
    /\ Len(polls) = 3
    /\ \A i \in 1..3 : polls[i].id = RunId
    /\ polls[1].response.code = 404
    /\ polls[2].response.code = 200
    /\ polls[2].response.body.status = "running"
    /\ polls[3].response.code = 200
    /\ polls[3].response.body.status = "completed"

\* Every await of the run settles and every reaction of a settled promise
\* runs: the steps of the run and the two reactions are weakly fair.
Settle ==
    \/ LoadStagehand
    \/ StagehandInit
    \/ R_Navigate
    \/ R_ClickProduct
    \/ R_AddToCart
    \/ R_GoToCheckout
    \/ R_PageInfo
    \/ R_Close
    \/ R_CatchClose
    \/ StoreResult
    \/ StoreRejection

ServiceFairSpec == ServiceSpec /\ WF_vars(Settle)

\* the fields of an AnalysisResult
AnalysisResultFields ==
    { "run_id", "store_url", "status", "score", "metrics", "findings",
      "timeline", "session_url", "error" }

\* C20: a poll of a submitted run is answered { run_id, status: 'running' }
\* until the promise of the run has settled, and with the whole
\* AnalysisResult afterwards (the resolved one, or the failed one built for a
\* rejection); the entry of the run leaves 'running' for a terminal state
\* once, and does so eventually; after a poll has returned a terminal result
\* every later poll returns the same one.
C20_PollFollowsTheRun ==
    /\ [][Len(polls') = Len(polls) + 1 /\ polls'[Len(polls')].id = RunId /\ pc # "idle" =>
              LET body == polls'[Len(polls')].response.body
              IN  CASE pc = "done" -> body = ValueOf(returned)
                    [] pc = "rejected" ->
                           /\ DOMAIN body = AnalysisResultFields
                           /\ body.run_id = RunId
                           /\ body.status = "failed"
                           /\ body.timeline = <<>>
                           /\ body.findings[1].id = "error"
                    [] OTHER -> body = [run_id |-> RunId, status |-> "running"]]_vars
    /\ [][(RunId \in DOMAIN resultsStore) /\ resultsStore'[RunId] # resultsStore[RunId] =>
              (/\ resultsStore[RunId] = [status |-> "running", result |-> None]
               /\ resultsStore'[RunId].status \in {"completed", "failed"}
               /\ resultsStore'[RunId].result # None)]_vars
    /\ [](\A i \in 1..Len(polls) : \A j \in i..Len(polls) :
              /\ polls[i].id = RunId /\ polls[j].id = RunId
              /\ polls[i].response.code = 200
              /\ DOMAIN polls[i].response.body = AnalysisResultFields
              => polls[j].response = polls[i].response)
    /\ (RunId \in DOMAIN resultsStore
           ~> (/\ RunId \in DOMAIN resultsStore
               /\ resultsStore[RunId].status \in {"completed", "failed"}))

\* two polls while the run was running and one after it resolved
C20_Witness ==
    /\ Len(polls) = 3
    /\ \A i \in 1..3 : polls[i].id = RunId
    /\ polls[1].response.body = [run_id |-> RunId, status |-> "running"]
    /\ polls[2].response.body = [run_id |-> RunId, status |-> "running"]
    /\ pc = "done"
    /\ polls[3].response.body = ValueOf(returned)
    /\ resultsStore[RunId].status = "completed"

----------------------------------------------------------------------------
(* The run whose page-agent calls all settle *)

\* every awaited call returns or throws: the step that waits for it is taken
FairSpec == Spec /\ WF_vars(Next)

\* C22: a run has no unbounded retry.  No call site is executed twice, so
\* product discovery issues at most one corrective navigation (the category
\* click) and at most one retry of the product click, and the add-to-cart
\* stage clicks add-to-cart at most three times; a run issues at most 29
\* act/extract calls; and a run whose calls all settle terminates.
C22_NoUnboundedRetry ==
    /\ [](\A i, j \in 1..Len(calls) : calls[i].line = calls[j].line => i = j)
    /\ [](variant = "full" =>
            /\ Cardinality({i \in 1..Len(calls) : calls[i].line = 207}) <= 1
            /\ Cardinality({i \in 1..Len(calls) : calls[i].line = 237}) <= 1
            /\ Cardinality({i \in 1..Len(calls) :
                               calls[i].line \in {384, 443, 456}}) <= 3)
    /\ [](Cardinality({i \in 1..Len(calls) :
                          calls[i].op \in {"act", "extract"}}) <= 29)
    /\ <>(pc \in {"done", "rejected"})

\* the longest run: every detour and every retry taken, 29 act/extract calls
C22_Witness ==
    /\ pc = "done"
    /\ Cardinality({i \in 1..Len(calls) : calls[i].op \in {"act", "extract"}}) = 29
    /\ \E i \in 1..Len(calls) : calls[i].line = 207
    /\ \E i \in 1..Len(calls) : calls[i].line = 237
    /\ \E i \in 1..Len(calls) : calls[i].line = 456

----------------------------------------------------------------------------
(* Evidence of the findings *)

\* C23: the evidence of every finding holds the text of an observation an
\* extract of this run returned, or the message of an error a call of this
\* run threw.
C23_EvidenceFromObservation ==
    \A k \in DOMAIN findings :
        \/ \E i \in DOMAIN calls :
               /\ calls[i].got # NULL
               /\ Includes(findings[k].evidence, Substring0(Str[calls[i].got], 200))
        \/ \E i \in DOMAIN calls :
               /\ calls[i].threw
               /\ Includes(findings[k].evidence, AnError.message)

----------------------------------------------------------------------------
(* The form fill *)

C25_FormFillCaughtLocally ==
    /\ [][(/\ variant = "full"
           /\ Len(calls') = Len(calls) + 1
           /\ calls'[Len(calls')].threw
           /\ calls'[Len(calls')].line \in {695, 700, 713, 729, 746, 766, 771, 784, 800, 815})
          => /\ findings' = Append(findings,
                    [id |-> "checkout-form-issues", category |-> "warning",
                     evidence |-> "Error: page agent failed"])
             /\ dropOffStep = NULL /\ dropOffStep' = NULL
             /\ checkoutReached /\ checkoutReached'
             /\ caught' = None
             /\ timeline' = timeline
             /\ pc' = "close"]_vars
    /\ [](Cardinality({k \in DOMAIN findings :
                          findings[k].id = "checkout-form-issues"}) <= 1)
    /\ []((\E k \in DOMAIN findings : findings[k].id = "checkout-form-issues")
            => dropOffStep = NULL /\ checkoutReached)

\* the address modal check threw after three fill steps were recorded
C25_Witness ==
    /\ pc = "close"
    /\ calls[Len(calls)].line = 766
    /\ calls[Len(calls)].threw
    /\ findings[Len(findings)].id = "checkout-form-issues"
    /\ dropOffStep = NULL
    /\ checkoutReached

\* C26: in a finished run that reached form filling, each sub-step of the
\* form fill has its timeline event (login/guest checkout, contact, name,
\* address, shipping, advance to payment), whichever call of the form fill
\* threw.
C26_EverySubStepRecorded ==
    ( /\ pc = "done"
      /\ variant = "full"
      /\ \E k \in DOMAIN timeline : timeline[k].action = "Filling checkout form" )
    => \A label \in { "Handling login/guest checkout",
                      "Filled contact information",
                      "Filled name fields",
                      "Filled address fields",
                      "Selected shipping method",
                      "Filled checkout form with dummy data" } :
           \E k \in DOMAIN timeline : timeline[k].action = label

----------------------------------------------------------------------------
(* Checkout navigation *)

\* C27: a call of checkout navigation (cart click 649, page extract 662,
\* proceed 667) is issued only with addToCartSuccess true and dropOffStep
\* null.  When the stage's last call returns, checkoutReached becomes true
\* and the form fill starts, whatever the extract returned.  When a call of
\* the stage throws, dropOffStep becomes checkout_navigation, the critical
\* finding checkout-failed is appended, checkoutReached stays false, and no
\* call of the form fill is ever issued.
C27_CheckoutNavigation ==
    /\ [][(/\ variant = "full"
           /\ Len(calls') = Len(calls) + 1
           /\ calls'[Len(calls')].line \in {649, 662, 667})
          => LET call == calls'[Len(calls')]
             IN  /\ addToCartSuccess /\ dropOffStep = NULL
                 /\ ~checkoutReached
                 /\ IF call.threw
                    THEN /\ dropOffStep' = "checkout_navigation"
                         /\ findings' = Append(findings,
                                [id |-> "checkout-failed", category |-> "critical",
                                 evidence |-> "Error: page agent failed"])
                         /\ ~checkoutReached'
                         /\ pc' = "close"
                    ELSE /\ dropOffStep' = NULL
                         /\ findings' = findings
                         /\ \/ pc' \in {"cartPageInfo", "proceedToCheckout"} /\ ~checkoutReached'
                            \/ pc' = "loginCheck" /\ checkoutReached']_vars
    /\ [](variant = "full" =>
            \A obs \in CartInfoObs :
                ( \E i \in DOMAIN calls :
                      /\ calls[i].line = 662 /\ calls[i].got = obs
                      /\ i < Len(calls) /\ ~calls[i + 1].threw )
                => checkoutReached)
    /\ [](variant = "full" /\ dropOffStep = "checkout_navigation" =>
            /\ ~checkoutReached
            /\ \A i \in DOMAIN calls : calls[i].line \notin 695..815)
    /\ [](variant = "full" /\ checkoutReached => addToCartSuccess)

\* a finished run whose proceed-to-checkout act threw on the cart page
C27_Witness ==
    /\ pc = "done"
    /\ variant = "full"
    /\ dropOffStep = "checkout_navigation"
    /\ \E i \in DOMAIN calls : calls[i].line = 667 /\ calls[i].threw
    /\ \E k \in DOMAIN findings : findings[k].id = "checkout-failed"
    /\ ~checkoutReached

----------------------------------------------------------------------------
(* Add to cart *)

\* C28: when the cart check returns without showing success, one diagnostic
\* extract (line 575) is issued; when it returns, one finding is appended,
\* add-to-cart-size-required, add-to-cart-out-of-stock,
\* add-to-cart-login-required or add-to-cart-failed, the first in that order
\* whose words the diagnostic text holds; dropOffStep becomes add_to_cart
\* and addToCartSuccess stays false.  When a call of the add-to-cart stage
\* throws, one critical add-to-cart-failed finding is appended and
\* dropOffStep becomes add_to_cart.  No run has two findings of these ids.
C28_AddToCartFailure ==
    /\ [][(/\ variant = "full"
           /\ Len(calls') = Len(calls) + 1
           /\ calls'[Len(calls')].line \in {384, 395, 433, 443, 449, 456, 471, 575})
          => LET call == calls'[Len(calls')]
                 added == findings'[Len(findings')]
             IN  /\ call.line = 575 =>
                        /\ calls[Len(calls)].line = 471
                        /\ ~calls[Len(calls)].threw
                        /\ calls[Len(calls)].got \in
                               { "cart icon shows 0 items, no success message",
                                 "cart badge not shown", "0" }
                 /\ call.line = 575 /\ ~call.threw =>
                        /\ Len(findings') = Len(findings) + 1
                        /\ SubSeq(findings', 1, Len(findings)) = findings
                        /\ added.id =
                               CASE call.got = "please choose a size" ->
                                        "add-to-cart-size-required"
                                 [] call.got = "out of stock in this size, login to be notified" ->
                                        "add-to-cart-size-required"
                                 [] call.got = "out of stock" ->
                                        "add-to-cart-out-of-stock"
                                 [] call.got = "out of stock, login to be notified" ->
                                        "add-to-cart-out-of-stock"
                                 [] call.got = "login required" ->
                                        "add-to-cart-login-required"
                                 [] call.got = "nothing shown" ->
                                        "add-to-cart-failed"
                        /\ dropOffStep' = "add_to_cart"
                        /\ ~addToCartSuccess'
                 /\ call.threw =>
                        /\ findings' = Append(findings,
                               [id |-> "add-to-cart-failed", category |-> "critical",
                                evidence |-> "Error: page agent failed"])
                        /\ dropOffStep' = "add_to_cart"
                        /\ ~addToCartSuccess'
                 /\ call.line # 575 /\ ~call.threw =>
                        /\ findings' = findings
                        /\ dropOffStep' = NULL]_vars
    /\ [](variant = "full" =>
            /\ Cardinality({i \in DOMAIN calls : calls[i].line = 575}) <= 1
            /\ Cardinality({k \in DOMAIN findings :
                   findings[k].id \in { "add-to-cart-size-required",
                                        "add-to-cart-out-of-stock",
                                        "add-to-cart-login-required",
                                        "add-to-cart-failed" }}) <= 1)
    /\ [](( /\ variant = "full"
            /\ pc \notin {"cartCheck", "finalErrorCheck"}
            /\ \E i \in DOMAIN calls :
                   /\ calls[i].line = 471 /\ ~calls[i].threw
                   /\ calls[i].got \in { "cart icon shows 0 items, no success message",
                                         "cart badge not shown", "0" } )
          => /\ \E i \in DOMAIN calls : calls[i].line = 575
             /\ dropOffStep = "add_to_cart"
             /\ ~addToCartSuccess
             /\ Cardinality({k \in DOMAIN findings :
                    findings[k].id \in { "add-to-cart-size-required",
                                         "add-to-cart-out-of-stock",
                                         "add-to-cart-login-required",
                                         "add-to-cart-failed" }}) = 1)

\* the diagnostic text names a size, the stock and a login: the size finding
C28_Witness ==
    /\ variant = "full"
    /\ pc = "done"
    /\ \E i \in DOMAIN calls :
           /\ calls[i].line = 575
           /\ calls[i].got = "out of stock in this size, login to be notified"
    /\ \E k \in DOMAIN findings : findings[k].id = "add-to-cart-size-required"
    /\ dropOffStep = "add_to_cart"

\* C29: the select-and-re-click retry (acts 433 and 443) is issued only
\* after the first error probe (395) returned a text of the variant-required
\* lexicon; the dropdown attempt (456) is issued only after that retry and
\* only after the second probe (449) returned a text that still reports a
\* size or variant error; and when no call of the stage throws, the cart
\* check (471) is issued after the ladder.
C29_RetryLadder ==
    variant = "full" =>
        /\ \A j \in DOMAIN calls :
               calls[j].line \in {433, 443} =>
                   \E i \in 1..(j - 1) :
                       calls[i].line = 395 /\ calls[i].got = "lütfen beden"
        /\ \A j \in DOMAIN calls :
               calls[j].line = 456 =>
                   /\ j > 3
                   /\ calls[j - 3].line = 433 /\ ~calls[j - 3].threw
                   /\ calls[j - 2].line = 443 /\ ~calls[j - 2].threw
                   /\ calls[j - 1].line = 449
                   /\ calls[j - 1].got = "beden error"
        /\ ( /\ pc \notin {"addToCart", "errorCheck", "selectVariant", "retryAddToCart",
                           "secondErrorCheck", "dropdownAttempt", "cartCheck"}
             /\ \E i \in DOMAIN calls : calls[i].line = 384
             /\ \A i \in DOMAIN calls :
                    calls[i].line \in {384, 395, 433, 443, 449, 456} => ~calls[i].threw )
           => \E i \in DOMAIN calls :
                  /\ calls[i].line = 471
                  /\ \A j \in DOMAIN calls :
                         calls[j].line \in {384, 395, 433, 443, 449, 456} => j < i

----------------------------------------------------------------------------
(* Product discovery *)

\* C30: product discovery fails when one of its calls throws and when the
\* last product-page check of the run (line 230) is negative and the retry of
\* the product click has been spent: once the stage is over, dropOffStep is
\* product_discovery, a critical finding no-products is in the findings and
\* no call of the add-to-cart stage is issued.
C30_DiscoveryFails ==
    ( /\ variant = "full"
      /\ pc \notin {"initialCheck", "navigateToProducts", "clickCategory",
                    "clickProduct", "pageCheck", "clickProductRetry", "catch"}
      /\ caught = None
      /\ \/ \E i \in DOMAIN calls :
                calls[i].line \in {184, 193, 207, 218, 230, 237} /\ calls[i].threw
         \/ /\ \E i \in DOMAIN calls : calls[i].line = 230 /\ calls[i].got = "NO"
            /\ \E i \in DOMAIN calls : calls[i].line = 237 )
    => /\ dropOffStep = "product_discovery"
       /\ \E k \in DOMAIN findings :
              findings[k].id = "no-products" /\ findings[k].category = "critical"
       /\ \A i \in DOMAIN calls : calls[i].line \notin 384..575

----------------------------------------------------------------------------
(* Two runs in flight *)

\* a second valid POST while the first run is in flight: a new run id, its
\* entry { status: 'running' }, and runAnalysis called without await: the
\* new invocation has its own locals and stops at its first await
SubmitConcurrent ==
    /\ ~ReactionPending
    /\ parked = None
    /\ pc \notin {"idle"}
    /\ "run-2" \notin DOMAIN resultsStore
    /\ requestBody' = Some(Body(TRUE, StoreUrl))
    /\ resultsStore' = MapSet(resultsStore, "run-2", Running)
    /\ parked' = Some([id |-> "run-2", pc |-> "load",
                       timeline |-> <<>>, findings |-> <<>>,
                       addToCartSuccess |-> FALSE, checkoutReached |-> FALSE,
                       dropOffStep |-> NULL, timeToAddToCart |-> None,
                       sessionUrl |-> NULL, currentUrl |-> NULL,
                       startTime |-> clock, cartCheckStr |-> NULL,
                       caught |-> None, clock |-> clock, calls |-> <<>>,
                       returned |-> None, rejected |-> None])
    /\ submitResponse' =
           Some(Json(200, [run_id |-> "run-2", store_url |-> StoreUrl,
                           status |-> "running"]))
    /\ UNCHANGED <<polls, pc, variant, timeline, findings, flags, sessionUrl,
                   currentUrl, startTime, cartCheckStr, caught, clock, calls,
                   returned, rejected, current>>

\* the event loop resumes the other invocation: its locals become the
\* variables of the run, the locals of the invocation that was running are
\* kept; nothing else changes
Switch ==
    /\ parked # None
    /\ LET other == ValueOf(parked)
       IN  /\ current' = other.id
           /\ pc' = other.pc
           /\ timeline' = other.timeline
           /\ findings' = other.findings
           /\ addToCartSuccess' = other.addToCartSuccess
           /\ checkoutReached' = other.checkoutReached
           /\ dropOffStep' = other.dropOffStep
           /\ timeToAddToCart' = other.timeToAddToCart
           /\ sessionUrl' = other.sessionUrl
           /\ currentUrl' = other.currentUrl
           /\ startTime' = other.startTime
           /\ cartCheckStr' = other.cartCheckStr
           /\ caught' = other.caught
           /\ clock' = other.clock
           /\ calls' = other.calls
           /\ returned' = other.returned
           /\ rejected' = other.rejected
    /\ parked' = Some([id |-> current, pc |-> pc,
                       timeline |-> timeline, findings |-> findings,
                       addToCartSuccess |-> addToCartSuccess,
                       checkoutReached |-> checkoutReached,
                       dropOffStep |-> dropOffStep,
                       timeToAddToCart |-> timeToAddToCart,
                       sessionUrl |-> sessionUrl, currentUrl |-> currentUrl,
                       startTime |-> startTime, cartCheckStr |-> cartCheckStr,
                       caught |-> caught, clock |-> clock, calls |-> calls,
                       returned |-> returned, rejected |-> rejected])
    /\ UNCHANGED <<variant, resultsStore, requestBody, submitResponse, polls>>

ConcurrentNext ==
    \/ Submit
    \/ SubmitConcurrent
    \/ Switch
    \/ StoreResult
    \/ StoreRejection
    \/ LoadStagehand
    \/ StagehandInit
    \/ R_Navigate
    \/ R_ClickProduct
    \/ R_AddToCart
    \/ R_GoToCheckout
    \/ R_PageInfo
    \/ R_Close
    \/ R_CatchClose

ConcurrentSpec == ServiceInit /\ [][ConcurrentNext]_vars

\* C21: two runs in flight do not interfere.  A step of one invocation, the
\* storing of its result included, changes neither the locals of the other
\* invocation (flags, findings, timeline, session, returned result) nor the
\* other run's entry of the registry; resuming the other invocation changes
\* no locals and no entry; and the result a terminal entry holds is the one
\* its own run returned, under its own run id.
C21_RunsDoNotInterfere ==
    /\ [][parked # None =>
            LET other == ValueOf(parked)
            IN  IF current' = current
                THEN /\ parked' = parked
                     /\ other.id \in DOMAIN resultsStore'
                     /\ resultsStore'[other.id] = resultsStore[other.id]
                ELSE /\ resultsStore' = resultsStore
                     /\ current' = other.id
                     /\ ValueOf(parked').id = current
                     /\ ValueOf(parked').returned = returned
                     /\ ValueOf(parked').findings = findings
                     /\ ValueOf(parked').timeline = timeline
                     /\ ValueOf(parked').sessionUrl = sessionUrl
                     /\ ValueOf(parked').dropOffStep = dropOffStep
                     /\ returned' = other.returned
                     /\ findings' = other.findings
                     /\ timeline' = other.timeline
                     /\ sessionUrl' = other.sessionUrl
                     /\ dropOffStep' = other.dropOffStep]_vars
    /\ []((current \in DOMAIN resultsStore /\ resultsStore[current].status = "completed")
            => /\ returned # None
               /\ resultsStore[current].result = returned
               /\ ValueOf(returned).run_id = current)
    /\ [](parked # None =>
            LET other == ValueOf(parked)
            IN  /\ other.id # current
                /\ other.id \in DOMAIN resultsStore
                /\ resultsStore[other.id].status = "completed"
                       => /\ other.returned # None
                          /\ resultsStore[other.id].result = other.returned
                          /\ ValueOf(other.returned).run_id = other.id
                /\ resultsStore[other.id].status = "running"
                       => \/ other.returned = None /\ other.rejected = None
                          \/ other.pc \in {"done", "rejected"})

\* both runs have settled and each entry holds its own run's result: the
\* first run reached the checkout, the second dropped off at add to cart
C21_Witness ==
    /\ DOMAIN resultsStore = {"run-1", "run-2"}
    /\ resultsStore["run-1"].status = "completed"
    /\ resultsStore["run-2"].status = "completed"
    /\ ValueOf(resultsStore["run-1"].result).run_id = "run-1"
    /\ ValueOf(resultsStore["run-2"].result).run_id = "run-2"
    /\ ValueOf(resultsStore["run-1"].result).metrics.checkout_reached
    /\ ValueOf(resultsStore["run-2"].result).metrics.drop_off_step = "add_to_cart"

----------------------------------------------------------------------------
(* The UX analyses *)

\* C31: when a UX-analysis extract throws (homepage 97, product page 252,
\* cart experience 498) the run is not aborted: no finding is appended,
\* dropOffStep stays null, the outermost catch is not entered, and the next
\* gated stage is entered: product discovery after the homepage, add to
\* cart after the product page, checkout navigation after the cart
\* experience.
C31_AnalysisFailureIsSkipped ==
    [][(/\ variant = "full"
        /\ Len(calls') = Len(calls) + 1
        /\ calls'[Len(calls')].threw
        /\ calls'[Len(calls')].line \in {97, 252, 498})
       => /\ findings' = findings
          /\ dropOffStep = NULL /\ dropOffStep' = NULL
          /\ caught' = None
          /\ addToCartSuccess' = addToCartSuccess
          /\ checkoutReached' = checkoutReached
          /\ pc' = CASE calls'[Len(calls')].line = 97 -> "initialCheck"
                     [] calls'[Len(calls')].line = 252 -> "addToCart"
                     [] calls'[Len(calls')].line = 498 -> "goToCart"]_vars

\* a run whose three UX analyses all threw and which went on to the checkout
C31_Witness ==
    /\ variant = "full"
    /\ \A line \in {97, 252, 498} :
           \E i \in DOMAIN calls : calls[i].line = line /\ calls[i].threw
    /\ \E i \in DOMAIN calls : calls[i].line = 649
    /\ findings = <<>>
    /\ dropOffStep = NULL

----------------------------------------------------------------------------
(* The funnel metrics of the returned result *)

\* C32: in every returned result of the full variant checkout_form_filled
\* is true exactly when the result's timeline has an event whose action
\* contains 'Filled checkout form', which is exactly when the act that
\* advances to the payment step (800), the last of the form-fill actions,
\* returned; and it is false when the run did not reach the checkout.
C32_FormFilledIffEvent ==
    (variant = "full" /\ returned # None)
    => LET r == ValueOf(returned)
           event == \E i \in DOMAIN r.timeline :
                        Includes(r.timeline[i].action, "Filled checkout form")
           advanced == \E i \in DOMAIN calls :
                           /\ calls[i].op = "act"
                           /\ calls[i].line = 800
                           /\ ~calls[i].threw
       IN  /\ r.metrics.checkout_form_filled <=> event
           /\ event <=> advanced
           /\ ~checkoutReached => ~r.metrics.checkout_form_filled

----------------------------------------------------------------------------
(* The registry entry of an accepted submit *)

\* C33: when every page-agent call of the run settles, the registry entry
\* of an accepted submit does not stay 'running': a run that returned leads
\* to an entry that is 'completed', a run whose promise rejected leads to
\* an entry that is 'failed', and every running entry leads to a terminal
\* one that holds a result.
C33_EntryBecomesTerminal ==
    /\ ((RunId \in DOMAIN resultsStore /\ resultsStore[RunId].status = "running")
           ~> (/\ RunId \in DOMAIN resultsStore
               /\ resultsStore[RunId].status \in {"completed", "failed"}
               /\ resultsStore[RunId].result # None))
    /\ (pc = "rejected"
           ~> (RunId \in DOMAIN resultsStore /\ resultsStore[RunId].status = "failed"))
    /\ (pc = "done"
           ~> (RunId \in DOMAIN resultsStore /\ resultsStore[RunId].status = "completed"))

\* runAnalysis rejected and the entry of its run is 'failed'
C33_Witness ==
    /\ pc = "rejected"
    /\ rejected # None
    /\ RunId \in DOMAIN resultsStore
    /\ resultsStore[RunId].status = "failed"
    /\ resultsStore[RunId].result # None
    /\ ValueOf(resultsStore[RunId].result).findings[1].id = "error"

----------------------------------------------------------------------------
(* The score of the reduced variant *)

\* C34: the score of a completed run of the reduced variant is the clamp to
\* [0,100] of 50, plus 25 when add to cart succeeded, plus 25 when checkout
\* was reached, minus 15 per critical and 5 per warning finding; suggestions
\* cost nothing and there is no form-fill component; fast-add-to-cart, the
\* one suggestion, is appended after the score and is the last finding.
C34_ReducedScoreFormula ==
    ( /\ returned # None
      /\ variant = "reduced"
      /\ ValueOf(returned).status = "completed" )
    =>
    LET r == ValueOf(returned)
        n(category) ==
            Cardinality({ i \in DOMAIN r.findings : r.findings[i].category = category })
        sum == 50 + (IF r.metrics.add_to_cart_success THEN 25 ELSE 0)
                  + (IF r.metrics.checkout_reached THEN 25 ELSE 0)
                  - 15 * n("critical") - 5 * n("warning")
    IN  /\ r.score = IF sum > 100 THEN 100 ELSE IF sum < 0 THEN 0 ELSE sum
        /\ "checkout_form_filled" \notin DOMAIN r.metrics
        /\ \A i \in DOMAIN r.findings :
               r.findings[i].category = "suggestion"
               => i = Len(r.findings) /\ r.findings[i].id = "fast-add-to-cart"

\* a completed reduced run that added to the cart fast and then could not
\* tell the checkout page: one warning, one suggestion, score 70
C34_Witness ==
    /\ returned # None
    /\ variant = "reduced"
    /\ ValueOf(returned).status = "completed"
    /\ ValueOf(returned).score = 70
    /\ \E i \in DOMAIN ValueOf(returned).findings :
           ValueOf(returned).findings[i].category = "warning"
    /\ \E i \in DOMAIN ValueOf(returned).findings :
           ValueOf(returned).findings[i].id = "fast-add-to-cart"

----------------------------------------------------------------------------
(* The funnel flags *)

\* C35: in every returned result, of either variant and of either status,
\* checkout_reached implies add_to_cart_success, and checkout_form_filled
\* (a field of the full variant's result only) implies checkout_reached.
C35_FunnelChain ==
    returned # None
    => LET m == ValueOf(returned).metrics
       IN  /\ m.checkout_reached => m.add_to_cart_success
           /\ "checkout_form_filled" \in DOMAIN m
              => (m.checkout_form_filled => m.checkout_reached)

\* a completed result whose three flags are true
C35_Witness ==
    /\ returned # None
    /\ ValueOf(returned).status = "completed"
    /\ "checkout_form_filled" \in DOMAIN ValueOf(returned).metrics
    /\ ValueOf(returned).metrics.checkout_form_filled
    /\ ValueOf(returned).metrics.checkout_reached
    /\ ValueOf(returned).metrics.add_to_cart_success

----------------------------------------------------------------------------
(* The drop-off step *)

\* C36: in every completed result drop_off_step is null, product_discovery,
\* add_to_cart or checkout_navigation; product_discovery comes with every
\* funnel flag false, add_to_cart with add_to_cart_success false,
\* checkout_navigation with add_to_cart_success true and checkout_reached
\* false; and once dropOffStep is set no later step of the run changes it.
C36_DropOffConsistent ==
    /\ []((returned # None /\ ValueOf(returned).status = "completed")
          => LET m == ValueOf(returned).metrics
                 filled == /\ "checkout_form_filled" \in DOMAIN m
                           /\ m.checkout_form_filled
             IN  /\ m.drop_off_step \in {NULL, "product_discovery", "add_to_cart",
                                         "checkout_navigation"}
                 /\ m.drop_off_step = "product_discovery"
                    => /\ ~m.add_to_cart_success
                       /\ ~m.checkout_reached
                       /\ ~filled
                 /\ m.drop_off_step = "add_to_cart" => ~m.add_to_cart_success
                 /\ m.drop_off_step = "checkout_navigation"
                    => m.add_to_cart_success /\ ~m.checkout_reached)
    /\ [][dropOffStep # NULL => dropOffStep' = dropOffStep]_vars

\* a completed result that dropped off at checkout navigation
C36_Witness ==
    /\ returned # None
    /\ ValueOf(returned).status = "completed"
    /\ ValueOf(returned).metrics.drop_off_step = "checkout_navigation"
    /\ ValueOf(returned).metrics.add_to_cart_success
    /\ ~ValueOf(returned).metrics.checkout_reached

----------------------------------------------------------------------------
(* The lifetime of the browser session *)

\* C37: every act and every extract call of a run, and the page.goto of
\* the full variant, comes after an init() that returned and before any
\* call of close(); init() is called once, and a close() is the last call
\* of the run or is followed only by the close() of the outermost catch.
C37_CallsWithinSession ==
    /\ \A i \in DOMAIN calls :
           calls[i].op \in {"act", "extract", "goto"}
           => /\ \E j \in 1..(i - 1) : calls[j].op = "init" /\ ~calls[j].threw
              /\ \A k \in 1..(i - 1) : calls[k].op # "close"
    /\ \A i, j \in DOMAIN calls :
           calls[i].op = "init" /\ calls[j].op = "init" => i = j
    /\ \A i, k \in DOMAIN calls :
           calls[i].op = "close" /\ k > i => calls[k].op = "close"

\* a run that called act and extract, whose close() inside the try threw
\* and whose catch closed again
C37_Witness ==
    /\ pc = "done"
    /\ Len(calls) >= 6
    /\ calls[2].op = "init" /\ ~calls[2].threw
    /\ \E i \in DOMAIN calls : calls[i].op = "act"
    /\ \E i \in DOMAIN calls : calls[i].op = "extract"
    /\ calls[Len(calls) - 1].op = "close" /\ calls[Len(calls) - 1].threw
    /\ calls[Len(calls)].op = "close"

----------------------------------------------------------------------------
(* The ids of the findings *)

\* C38: the findings of a run never hold one id twice: the ids of the
\* findings list are pairwise distinct in every state of the run and in
\* every returned result.  The two branches that push product-no-reviews
\* exclude each other: the product rules give that id at most once for a
\* text without any review word, for one that says 'no review', and for
\* one that shows reviews.
C38_FindingIdsDistinct ==
    /\ \A i, j \in DOMAIN findings : findings[i].id = findings[j].id => i = j
    /\ returned # None
       => LET fs == ValueOf(returned).findings
          IN  \A i, j \in DOMAIN fs : fs[i].id = fs[j].id => i = j
    /\ pc = "productAnalysis"
       => \A str \in {"price shown", "no reviews yet, no rating", "4 star reviews"} :
              LET fs == ProductFindings(str)
              IN  /\ \A i, j \in DOMAIN fs : fs[i].id = fs[j].id => i = j
                  /\ (\E i \in DOMAIN fs : fs[i].id = "product-no-reviews")
                     <=> str # "4 star reviews"

\* a completed result with product-no-reviews, an add-to-cart-failed of
\* the catch and no positive finding
C38_Witness ==
    /\ returned # None
    /\ ValueOf(returned).status = "completed"
    /\ \E i \in DOMAIN ValueOf(returned).findings :
           ValueOf(returned).findings[i].id = "product-no-reviews"
    /\ \E i \in DOMAIN ValueOf(returned).findings :
           /\ ValueOf(returned).findings[i].id = "add-to-cart-failed"
           /\ ValueOf(returned).findings[i].evidence = "Error: page agent failed"
    /\ Len(ValueOf(returned).findings) >= 4

----------------------------------------------------------------------------
(* The status a poll reports *)

\* C39: a poll of a run whose registry entry is terminal answers 200 with
\* the status of the stored AnalysisResult, whatever the status of the
\* entry itself is: a result with status 'failed' that the .then reaction
\* stored under the entry status 'completed' is reported as 'failed'.
C39_PollStatusIsResultStatus ==
    [][(/\ Len(polls') = Len(polls) + 1
        /\ polls'[Len(polls')].id \in DOMAIN resultsStore
        /\ resultsStore[polls'[Len(polls')].id].status # "running")
       => LET entry == resultsStore[polls'[Len(polls')].id]
              response == polls'[Len(polls')].response
          IN  /\ response.code = 200
              /\ response.body.status = ValueOf(entry.result).status
              /\ (entry.status = "completed" /\ pc = "done" /\ caught # None)
                 => response.body.status = "failed"]_vars

\* the run returned the failed result of its outermost catch, the entry
\* says 'completed' and a poll reported 'failed'
C39_Witness ==
    /\ RunId \in DOMAIN resultsStore
    /\ resultsStore[RunId].status = "completed"
    /\ ValueOf(resultsStore[RunId].result).status = "failed"
    /\ Len(polls) >= 1
    /\ polls[Len(polls)].id = RunId
    /\ polls[Len(polls)].response.body.status = "failed"

----------------------------------------------------------------------------
(* The form-fill warning *)

\* C40: no returned result holds the warning checkout-form-issues together
\* with checkout_form_filled = true or with the positive finding
\* successful-form-fill.
C40_FormIssuesOnlyWhenNotFilled ==
    (variant = "full" /\ returned # None)
    => LET r == ValueOf(returned)
       IN  (\E i \in DOMAIN r.findings : r.findings[i].id = "checkout-form-issues")
           => /\ ~r.metrics.checkout_form_filled
              /\ \A i \in DOMAIN r.findings : r.findings[i].id # "successful-form-fill"

=============================================================================
